---- MODULE Spec2Model ----
(***************************************************************************)
(* Child-nutrition ETL pipeline: the cleaning stages of                    *)
(* src/src/data_cleaning.py, the longitudinal derivation of                *)
(* src/src/derived_fields.py and the orchestrator of src/main.py.          *)
(*                                                                         *)
(* A table is a record [cols, rows]: cols is the set of column names and   *)
(* rows a sequence of [idx, cell], idx being the pandas index label of the *)
(* row and cell a function from column name to cell value.  A cell is a    *)
(* tagged record:                                                          *)
(*   [t |-> "null"]                       NaN / None / NaT                 *)
(*   [t |-> "num",  n |-> Int]            a number                         *)
(*   [t |-> "str",  s |-> <<chars>>]      text, one character per element  *)
(*   [t |-> "date", d |-> Int, ns |-> Nat] a timestamp: day number since   *)
(*                                        1970-01-01 and the nanoseconds   *)
(*                                        elapsed within that day          *)
(***************************************************************************)
EXTENDS Integers, Sequences, FiniteSets, TLC

(***************************************************************************)
(* Cells                                                                   *)
(***************************************************************************)
Null == [t |-> "null"]
Num(n) == [t |-> "num", n |-> n]
Str(s) == [t |-> "str", s |-> s]
Timestamp(d, ns) == [t |-> "date", d |-> d, ns |-> ns]

\* Series.isnull(), per cell.
isnull(c) == c.t = "null"

\* Proleptic Gregorian day number of y-m-d, 1970-01-01 being day 0.
DaysFromCivil(y, m, d) ==
    LET yy  == IF m <= 2 THEN y - 1 ELSE y
        era == yy \div 400
        yoe == yy - era * 400
        mp  == IF m > 2 THEN m - 3 ELSE m + 9
        doy == (153 * mp + 2) \div 5 + d - 1
        doe == yoe * 365 + yoe \div 4 - yoe \div 100 + doy
    IN  era * 146097 + doe - 719468

IsLeap(y) == (y % 4 = 0 /\ y % 100 # 0) \/ y % 400 = 0

DaysInMonth(y, m) ==
    IF m = 2 THEN (IF IsLeap(y) THEN 29 ELSE 28)
    ELSE IF m \in {4, 6, 9, 11} THEN 30 ELSE 31

\* A calendar date at midnight.
Date(y, m, d) == Timestamp(DaysFromCivil(y, m, d), 0)

(***************************************************************************)
(* Text                                                                    *)
(***************************************************************************)
DigitChars == <<"0", "1", "2", "3", "4", "5", "6", "7", "8", "9">>

IsDigit(c) == \E i \in 1..10 : DigitChars[i] = c

DigitVal(c) == (CHOOSE i \in 1..10 : DigitChars[i] = c) - 1

IsSpace(c) == c = " "

AllDigits(s) == \A i \in 1..Len(s) : IsDigit(s[i])

RECURSIVE DigitsVal(_)
DigitsVal(s) ==
    IF Len(s) = 0 THEN 0
    ELSE 10 * DigitsVal(SubSeq(s, 1, Len(s) - 1)) + DigitVal(s[Len(s)])

RECURSIVE lstrip(_)
lstrip(s) ==
    IF Len(s) > 0 /\ IsSpace(s[1]) THEN lstrip(Tail(s)) ELSE s

RECURSIVE rstrip(_)
rstrip(s) ==
    IF Len(s) > 0 /\ IsSpace(s[Len(s)]) THEN rstrip(SubSeq(s, 1, Len(s) - 1)) ELSE s

\* str.strip()
strip(s) == rstrip(lstrip(s))

\* str(n) of an integer.
RECURSIVE NatStr(_)
NatStr(n) ==
    IF n < 10 THEN <<DigitChars[n + 1]>>
    ELSE NatStr(n \div 10) \o <<DigitChars[(n % 10) + 1]>>

IntStr(n) == IF n < 0 THEN <<"-">> \o NatStr(0 - n) ELSE NatStr(n)

\* The text of a decimal literal without its sign: digits, or digits, a
\* point and zeros (the model's numbers are whole).
IsUnsignedLiteral(s) ==
    \/ Len(s) > 0 /\ AllDigits(s)
    \/ \E k \in 2..Len(s) :
          /\ s[k] = "."
          /\ AllDigits(SubSeq(s, 1, k - 1))
          /\ \A i \in (k + 1)..Len(s) : s[i] = "0"

UnsignedVal(s) ==
    IF AllDigits(s) THEN DigitsVal(s)
    ELSE DigitsVal(SubSeq(s, 1, (CHOOSE k \in 2..Len(s) : s[k] = ".") - 1))

S_nan == <<"n", "a", "n">>
S_None == <<"N", "o", "n", "e">>
S_null == <<"n", "u", "l", "l">>
S_NULL == <<"N", "U", "L", "L">>
S_empty == <<>>
S_blank == <<" ">>
S_MeasureHeight ==
    <<"M", "e", "a", "s", "u", "r", "e", ":", " ", "H", "e", "i", "g", "h", "t">>
S_MeasureBMI == <<"M", "e", "a", "s", "u", "r", "e", " ", "B", "M", "I">>
S_Height == <<"H", "e", "i", "g", "h", "t">>
S_BMI == <<"B", "M", "I">>
S_Weight == <<"W", "e", "i", "g", "h", "t">>
S_A == <<"A">>
S_B == <<"B">>

(***************************************************************************)
(* Coercions, per cell                                                     *)
(***************************************************************************)
\* pd.to_numeric(..., errors='coerce'): text that is no number becomes NaN.
\* Cells of numeric columns are null, numbers or text.
to_numeric(c) ==
    CASE c.t = "null" -> Null
      [] c.t = "num" -> c
      [] c.t = "str" ->
            LET s == strip(c.s)
                neg == Len(s) > 0 /\ s[1] = "-"
                body == IF Len(s) > 0 /\ s[1] \in {"-", "+"} THEN Tail(s) ELSE s
            IN  IF IsUnsignedLiteral(body)
                THEN Num(IF neg THEN 0 - UnsignedVal(body) ELSE UnsignedVal(body))
                ELSE Null

\* The timestamp a text cell parses to: YYYY-MM-DD, anything else is NaT.
ParseDate(s) ==
    IF /\ Len(s) = 10
       /\ s[5] = "-"
       /\ s[8] = "-"
       /\ AllDigits(SubSeq(s, 1, 4))
       /\ AllDigits(SubSeq(s, 6, 7))
       /\ AllDigits(SubSeq(s, 9, 10))
    THEN LET y == DigitsVal(SubSeq(s, 1, 4))
             m == DigitsVal(SubSeq(s, 6, 7))
             d == DigitsVal(SubSeq(s, 9, 10))
         IN  IF m \in 1..12 /\ d >= 1 /\ d <= DaysInMonth(y, m)
             THEN Date(y, m, d)
             ELSE Null
    ELSE Null

\* pd.to_datetime(..., errors='coerce'): a number counts nanoseconds from
\* 1970-01-01 (numbers of the model stay below one day of nanoseconds).
to_datetime(c) ==
    CASE c.t = "null" -> Null
      [] c.t = "date" -> c
      [] c.t = "num" -> Timestamp(0, c.n)
      [] c.t = "str" -> ParseDate(c.s)

\* Series.astype(str): a missing value becomes the text nan.
\* Cells of label columns are null, text or numbers.
astype_str(c) ==
    CASE c.t = "null" -> Str(S_nan)
      [] c.t = "str" -> c
      [] c.t = "num" -> Str(IntStr(c.n))

(***************************************************************************)
(* Tables                                                                  *)
(***************************************************************************)
Table(cols, rows) == [cols |-> cols, rows |-> rows]

\* DataFrame.empty: no rows or no columns.
empty(df) == Len(df.rows) = 0 \/ df.cols = {}

\* df[col] = f(df[col]), cell by cell.
MapCol(rows, col, F(_)) ==
    [i \in 1..Len(rows) |->
        [rows[i] EXCEPT !.cell = [@ EXCEPT ![col] = F(@)]]]

\* Series.dtype of a column, from its cells.
ColDtype(rows, col) ==
    IF \A i \in 1..Len(rows) : rows[i].cell[col].t \in {"num", "null"}
    THEN "float64"
    ELSE IF \A i \in 1..Len(rows) : rows[i].cell[col].t \in {"date", "null"}
         THEN "datetime64[ns]"
         ELSE "object"

\* df[mask]: the rows whose index label is in keep, in their order.
RECURSIVE Select(_, _)
Select(rows, keep) ==
    IF Len(rows) = 0 THEN <<>>
    ELSE (IF rows[1].idx \in keep THEN <<rows[1]>> ELSE <<>>)
         \o Select(Tail(rows), keep)

\* What a stage call gives back: a table, or an exception.
Return(df) == [ok |-> TRUE, df |-> df]
Raise(exc, missing) == [ok |-> FALSE, exc |-> exc, missing |-> missing]

\* [col for col in required_columns if col not in df.columns]
RECURSIVE MissingColumns(_, _)
MissingColumns(required, cols) ==
    IF Len(required) = 0 THEN <<>>
    ELSE (IF required[1] \in cols THEN <<>> ELSE <<required[1]>>)
         \o MissingColumns(Tail(required), cols)

(***************************************************************************)
(* Duplicate Resolver: remove_duplicates                                   *)
(***************************************************************************)
DedupColumns == <<"BeneficiaryId", "DatapointName", "Answer", "Capture Date", "Site">>

\* Mutant: the capture date is not coerced to a date type.
DedupCoerce_NoDate(rows) ==
    LET r1 == MapCol(rows, "BeneficiaryId", to_numeric)
        r2 == MapCol(r1, "Answer", to_numeric)
        r3 == r2
        r4 == MapCol(r3, "DatapointName", astype_str)
    IN  MapCol(r4, "Site", astype_str)

\* The key columns coerced to comparable types (df_processed).
DedupCoerce(rows) ==
    LET r1 == MapCol(rows, "BeneficiaryId", to_numeric)
        r2 == MapCol(r1, "Answer", to_numeric)
        r3 == IF ColDtype(r2, "Capture Date") # "datetime64[ns]"
              THEN MapCol(r2, "Capture Date", to_datetime)
              ELSE r2
        r4 == MapCol(r3, "DatapointName", astype_str)
    IN  MapCol(r4, "Site", astype_str)

\* The cells of a row under the subset columns.
SubsetKey(row, subset) == [k \in 1..Len(subset) |-> row.cell[subset[k]]]

\* Mutant: keep='last' in place of keep='first'.
drop_duplicates_KeepLast(rows, subset) ==
    Select(rows,
           {rows[i].idx : i \in
               {i \in 1..Len(rows) :
                   \A j \in (i + 1)..Len(rows) :
                       SubsetKey(rows[j], subset) # SubsetKey(rows[i], subset)}})

\* DataFrame.drop_duplicates(subset, keep='first')
drop_duplicates(rows, subset) ==
    Select(rows,
           {rows[i].idx : i \in
               {i \in 1..Len(rows) :
                   \A j \in 1..(i - 1) :
                       SubsetKey(rows[j], subset) # SubsetKey(rows[i], subset)}})

\* Mutant: the duplicates are looked for in df, before the coercion.
remove_duplicates_RawKeys(df) ==
    IF empty(df) THEN Return(df)
    ELSE IF Len(MissingColumns(DedupColumns, df.cols)) > 0
         THEN Raise("ValueError", MissingColumns(DedupColumns, df.cols))
         ELSE Return(Table(df.cols,
                           Select(DedupCoerce(df.rows),
                                  {r.idx : r \in
                                      {drop_duplicates(df.rows, DedupColumns)[i] :
                                          i \in 1..Len(drop_duplicates(df.rows, DedupColumns))}})))

remove_duplicates(df) ==
    IF empty(df) THEN Return(df)
    ELSE IF Len(MissingColumns(DedupColumns, df.cols)) > 0
         THEN Raise("ValueError", MissingColumns(DedupColumns, df.cols))
         ELSE Return(Table(df.cols, drop_duplicates(DedupCoerce(df.rows), DedupColumns)))

(***************************************************************************)
(* Range Validator: remove_extreme_values                                  *)
(***************************************************************************)
RangeColumns == <<"DatapointName", "Answer">>

HeightMin == 40
HeightMax == 200
BmiMin == 5
BmiMax == 50
OtherMin == 0
OtherMax == 1000

\* Mutant: a missing value counts as below every limit.
lt_NullLow(c, k) == c.t # "num" \/ c.n < k

\* Series < k and Series > k: a comparison with NaN is False.
lt(c, k) == c.t = "num" /\ c.n < k
\* Mutant: >= in place of >.
gt_Inclusive(c, k) == c.t = "num" /\ c.n >= k
gt(c, k) == c.t = "num" /\ c.n > k

RangeCoerce(rows) ==
    MapCol(MapCol(rows, "Answer", to_numeric), "DatapointName", astype_str)

\* Mutant: the upper limit of the height interval is not tested.
height_mask_LowerOnly(row) ==
    /\ row.cell["DatapointName"] = Str(S_MeasureHeight)
    /\ lt(row.cell["Answer"], HeightMin)

height_mask(row) ==
    /\ row.cell["DatapointName"] = Str(S_MeasureHeight)
    /\ (lt(row.cell["Answer"], HeightMin) \/ gt(row.cell["Answer"], HeightMax))

bmi_mask(row) ==
    /\ row.cell["DatapointName"] = Str(S_MeasureBMI)
    /\ (lt(row.cell["Answer"], BmiMin) \/ gt(row.cell["Answer"], BmiMax))

\* Mutant: a label that is the text of a missing kind is no other
\* measurement.
OtherLabels_SkipMissing(rows) ==
    {rows[i].cell["DatapointName"] : i \in
        {i \in 1..Len(rows) :
            /\ rows[i].cell["DatapointName"] \notin {Str(S_MeasureHeight), Str(S_MeasureBMI)}
            /\ rows[i].cell["DatapointName"] \notin {Str(S_nan), Str(S_None)}}}

\* The labels of other_measurements: neither of the two named labels, and
\* notna (the label column holds text after astype(str)).
OtherLabels(rows) ==
    {rows[i].cell["DatapointName"] : i \in
        {i \in 1..Len(rows) :
            /\ rows[i].cell["DatapointName"] \notin {Str(S_MeasureHeight), Str(S_MeasureBMI)}
            /\ ~isnull(rows[i].cell["DatapointName"])}}

other_mask(rows, row) ==
    /\ row.cell["DatapointName"] \in OtherLabels(rows)
    /\ (lt(row.cell["Answer"], OtherMin) \/ gt(row.cell["Answer"], OtherMax))

RangeKeep(rows) ==
    {rows[i].idx : i \in
        {i \in 1..Len(rows) :
            /\ ~height_mask(rows[i])
            /\ ~bmi_mask(rows[i])
            /\ ~(OtherLabels(rows) # {} /\ other_mask(rows, rows[i]))}}

remove_extreme_values(df) ==
    IF empty(df) THEN Return(df)
    ELSE IF Len(MissingColumns(RangeColumns, df.cols)) > 0
         THEN Raise("ValueError", MissingColumns(RangeColumns, df.cols))
         ELSE LET p == RangeCoerce(df.rows)
              IN  Return(Table(df.cols, Select(p, RangeKeep(p))))

(***************************************************************************)
(* Completeness Filter: remove_missing_critical_data                       *)
(***************************************************************************)
CriticalColumns == <<"BeneficiaryId", "Answer", "Capture Date", "DatapointName">>

NullTokens == {S_empty, S_nan, S_None, S_null, S_NULL}

\* Mutant: no str.strip() before the tokens are replaced.
NormalizeText_NoStrip(c) ==
    LET s == astype_str(c).s
    IN  IF s \in NullTokens THEN Null ELSE Str(s)

\* astype(str), str.strip(), then replace('', nan) ... replace('NULL', nan)
NormalizeText(c) ==
    LET s == strip(astype_str(c).s)
    IN  IF s \in NullTokens THEN Null ELSE Str(s)

CriticalCoerce(rows) ==
    LET r1 == MapCol(rows, "BeneficiaryId", to_numeric)
        r2 == MapCol(r1, "Answer", to_numeric)
        r3 == IF ColDtype(r2, "Capture Date") # "datetime64[ns]"
              THEN MapCol(r2, "Capture Date", to_datetime)
              ELSE r2
    IN  MapCol(r3, "DatapointName", astype_str)

\* The loop over required_columns: the label column always, another
\* column only while its dtype is object.
RECURSIVE CleanNullTokens(_, _)
CleanNullTokens(rows, columns) ==
    IF Len(columns) = 0 THEN rows
    ELSE LET col == columns[1]
             cleaned == IF col = "DatapointName" \/ ColDtype(rows, col) = "object"
                        THEN MapCol(rows, col, NormalizeText)
                        ELSE rows
         IN  CleanNullTokens(cleaned, Tail(columns))

\* Mutant: the mask of the capture date is left out.
CriticalKeep_NoDate(rows) ==
    {rows[i].idx : i \in
        {i \in 1..Len(rows) :
            /\ ~isnull(rows[i].cell["BeneficiaryId"])
            /\ ~isnull(rows[i].cell["Answer"])
            /\ ~isnull(rows[i].cell["DatapointName"])}}

CriticalKeep(rows) ==
    {rows[i].idx : i \in
        {i \in 1..Len(rows) :
            /\ ~isnull(rows[i].cell["BeneficiaryId"])
            /\ ~isnull(rows[i].cell["Answer"])
            /\ ~isnull(rows[i].cell["Capture Date"])
            /\ ~isnull(rows[i].cell["DatapointName"])}}

remove_missing_critical_data(df) ==
    IF empty(df) THEN Return(df)
    ELSE IF Len(MissingColumns(CriticalColumns, df.cols)) > 0
         THEN Raise("ValueError", MissingColumns(CriticalColumns, df.cols))
         ELSE LET p == CleanNullTokens(CriticalCoerce(df.rows), CriticalColumns)
              IN  Return(Table(df.cols, Select(p, CriticalKeep(p))))

(***************************************************************************)
(* Type Normalizer: fix_data_types                                         *)
(***************************************************************************)
DateColumns == <<"Capture Date", "CreatedOn">>
NumericFields == <<"Answer", "WHO Index", "BeneficiaryId">>
BinaryFields == <<"Flagged", "MEASURED">>
OtherNumericFields == <<"Score", "z Score", "ENTRY NUMBER">>

SampleSize == 10
SerialThreshold == 1000
LeapBugSerial == 59

\* df[col].dropna().head(10)
RECURSIVE DropnaHead(_, _, _)
DropnaHead(rows, col, n) ==
    IF Len(rows) = 0 \/ n = 0 THEN <<>>
    ELSE IF isnull(rows[1].cell[col]) THEN DropnaHead(Tail(rows), col, n)
         ELSE <<rows[1].cell[col]>> \o DropnaHead(Tail(rows), col, n - 1)

\* The test for spreadsheet serial numbers on the sample of a column.
LooksSerial(rows, col) ==
    LET sample_values == DropnaHead(rows, col, SampleSize)
    IN  /\ ColDtype(rows, col) = "float64"
        /\ \A i \in 1..Len(sample_values) : sample_values[i].n > SerialThreshold

excel_to_datetime(c) ==
    IF isnull(c) THEN Null
    ELSE LET serial == IF c.n > LeapBugSerial THEN c.n - 2 ELSE c.n
         IN  Timestamp(DaysFromCivil(1900, 1, 1) + (serial - 2), 0)

\* pd.Timedelta(days=serial-2) raises when the days do not fit into 64-bit
\* nanoseconds, that is beyond 106751 days either way.
TimedeltaOverflows(c) ==
    /\ ~isnull(c)
    /\ LET serial == IF c.n > LeapBugSerial THEN c.n - 2 ELSE c.n
       IN  serial - 2 > 106751 \/ serial - 2 < 0 - 106751

\* The apply of excel_to_datetime raises as a whole when one call raises.
ApplyRaises(rows, col) ==
    \E i \in 1..Len(rows) : TimedeltaOverflows(rows[i].cell[col])

\* The try block of one date column raises: the except logs, counts a
\* conversion error and leaves the column as it was.
DateConversionRaises(rows, col) ==
    /\ Len(DropnaHead(rows, col, SampleSize)) > 0
    /\ LooksSerial(rows, col)
    /\ ApplyRaises(rows, col)

ConvertDateColumn(rows, col) ==
    IF Len(DropnaHead(rows, col, SampleSize)) > 0
    THEN IF LooksSerial(rows, col)
         THEN IF ApplyRaises(rows, col) THEN rows
              ELSE MapCol(rows, col, excel_to_datetime)
         ELSE MapCol(rows, col, to_datetime)
    ELSE rows

\* Mutant: a flag that is no number stays null.
to_binary_KeepNull(c) == to_numeric(c)

\* pd.to_numeric(...) then fillna(0).astype(int)
to_binary(c) == IF isnull(to_numeric(c)) THEN Num(0) ELSE to_numeric(c)

\* One of the loops of fix_data_types: convert each listed column the
\* table has, leave the table alone for a column it lacks.
RECURSIVE ConvertColumns(_, _, _, _)
ConvertColumns(rows, cols, columns, kind) ==
    IF Len(columns) = 0 THEN rows
    ELSE LET col == columns[1]
             converted ==
                 IF col \notin cols THEN rows
                 ELSE CASE kind = "date" -> ConvertDateColumn(rows, col)
                        [] kind = "numeric" -> MapCol(rows, col, to_numeric)
                        [] kind = "binary" -> MapCol(rows, col, to_binary)
         IN  ConvertColumns(converted, cols, Tail(columns), kind)

\* conversion_stats['conversion_errors'] at the end of fix_data_types.
conversion_errors(df) ==
    IF empty(df) THEN 0
    ELSE Cardinality({i \in 1..Len(DateColumns) :
                         /\ DateColumns[i] \in df.cols
                         /\ DateConversionRaises(df.rows, DateColumns[i])})

fix_data_types(df) ==
    IF empty(df) THEN Return(df)
    ELSE LET r1 == ConvertColumns(df.rows, df.cols, DateColumns, "date")
             r2 == ConvertColumns(r1, df.cols, NumericFields, "numeric")
             r3 == ConvertColumns(r2, df.cols, BinaryFields, "binary")
             r4 == ConvertColumns(r3, df.cols, OtherNumericFields, "numeric")
         IN  Return(Table(df.cols, r4))

(***************************************************************************)
(* Longitudinal Field Deriver: create_derived_fields                       *)
(***************************************************************************)
DerivedColumns ==
    {"days_since_previous_measurement", "days_since_first_measurement",
     "is_first_measurement", "is_latest_measurement"}

\* Timestamp order, and the whole days of a difference (Timedelta.days).
ts_le(a, b) == a.d < b.d \/ (a.d = b.d /\ a.ns <= b.ns)
days_between(a, b) == (a.d - b.d) - (IF a.ns < b.ns THEN 1 ELSE 0)

\* Row order under sort_values(['BeneficiaryId', 'Capture Date']).
SortKeyLe(a, b) ==
    \/ a.cell["BeneficiaryId"].n < b.cell["BeneficiaryId"].n
    \/ /\ a.cell["BeneficiaryId"].n = b.cell["BeneficiaryId"].n
       /\ ts_le(a.cell["Capture Date"], b.cell["Capture Date"])

\* Stable insertion of a row behind every row that is not after it.
RECURSIVE InsertSorted(_, _)
InsertSorted(sorted, row) ==
    IF Len(sorted) = 0 THEN <<row>>
    ELSE IF SortKeyLe(sorted[Len(sorted)], row) THEN Append(sorted, row)
         ELSE Append(InsertSorted(SubSeq(sorted, 1, Len(sorted) - 1), row),
                     sorted[Len(sorted)])

RECURSIVE SortRows(_)
SortRows(rows) ==
    IF Len(rows) = 0 THEN <<>>
    ELSE InsertSorted(SortRows(SubSeq(rows, 1, Len(rows) - 1)), rows[Len(rows)])

\* Mutant: the rows are not sorted.
sort_values_Unsorted(rows) == rows

sort_values(rows) == SortRows(rows)

\* Positions of the rows in the groupby('BeneficiaryId') group of row i.
Group(rows, i) ==
    {j \in 1..Len(rows) : rows[j].cell["BeneficiaryId"] = rows[i].cell["BeneficiaryId"]}

\* Mutant: the difference is taken to the child's first row.
days_since_previous_FromFirst(rows, i) ==
    LET before == {j \in Group(rows, i) : j < i}
    IN  IF before = {} THEN Null
        ELSE LET p == CHOOSE j \in before : \A k \in before : j <= k
             IN  Num(days_between(rows[i].cell["Capture Date"], rows[p].cell["Capture Date"]))

\* groupby(...)['Capture Date'].diff().dt.days
days_since_previous(rows, i) ==
    LET before == {j \in Group(rows, i) : j < i}
    IN  IF before = {} THEN Null
        ELSE LET p == CHOOSE j \in before : \A k \in before : k <= j
             IN  Num(days_between(rows[i].cell["Capture Date"], rows[p].cell["Capture Date"]))

\* groupby(...)['Capture Date'].transform(lambda x: (x - x.min()).dt.days)
days_since_first(rows, i) ==
    LET m == CHOOSE j \in Group(rows, i) :
                 \A k \in Group(rows, i) :
                     ts_le(rows[j].cell["Capture Date"], rows[k].cell["Capture Date"])
    IN  Num(days_between(rows[i].cell["Capture Date"], rows[m].cell["Capture Date"]))

\* Mutant: first means "at the child's earliest timestamp".
is_first_ByDate(rows, i) ==
    Num(IF \A k \in Group(rows, i) :
               ts_le(rows[i].cell["Capture Date"], rows[k].cell["Capture Date"])
        THEN 1 ELSE 0)

\* (groupby(...).cumcount() == 0).astype(int)
is_first(rows, i) ==
    Num(IF {j \in Group(rows, i) : j < i} = {} THEN 1 ELSE 0)

\* Mutant: only the last row of the child is the latest.
is_latest_LastRow(rows, i) ==
    Num(IF {j \in Group(rows, i) : j > i} = {} THEN 1 ELSE 0)

\* (groupby(...)['Capture Date'].transform('max') == df['Capture Date']).astype(int)
is_latest(rows, i) ==
    Num(IF \A k \in Group(rows, i) :
               ts_le(rows[k].cell["Capture Date"], rows[i].cell["Capture Date"])
        THEN 1 ELSE 0)

create_derived_fields(df) ==
    LET df_sorted == sort_values(df.rows)
    IN  Table(df.cols \cup DerivedColumns,
              [i \in 1..Len(df_sorted) |->
                  [idx |-> df_sorted[i].idx,
                   cell |->
                       [c \in df.cols \cup DerivedColumns |->
                           CASE c = "days_since_previous_measurement" ->
                                    days_since_previous(df_sorted, i)
                             [] c = "days_since_first_measurement" ->
                                    days_since_first(df_sorted, i)
                             [] c = "is_first_measurement" -> is_first(df_sorted, i)
                             [] c = "is_latest_measurement" -> is_latest(df_sorted, i)
                             [] OTHER -> df_sorted[i].cell[c]]]])

\* df.groupby('BeneficiaryId')[flag].sum() for the group of row i.
FlagSum(rows, i, flag) == Cardinality({j \in Group(rows, i) : rows[j].cell[flag] = Num(1)})

validate_derived_fields(df) ==
    /\ \A i \in 1..Len(df.rows) : FlagSum(df.rows, i, "is_first_measurement") = 1
    /\ \A i \in 1..Len(df.rows) : FlagSum(df.rows, i, "is_latest_measurement") >= 1
    /\ \A i \in 1..Len(df.rows) :
           df.rows[i].cell["is_first_measurement"] = Num(1)
               => df.rows[i].cell["days_since_first_measurement"] = Num(0)

(***************************************************************************)
(* Input tables                                                            *)
(***************************************************************************)
MaxPipeRows == 2

KeyColumns == {"BeneficiaryId", "DatapointName", "Answer", "Capture Date", "Site"}

Row(id, kind, value, date, site) ==
    [c \in KeyColumns |->
        CASE c = "BeneficiaryId" -> id
          [] c = "DatapointName" -> kind
          [] c = "Answer" -> value
          [] c = "Capture Date" -> date
          [] c = "Site" -> site]

\* A table read from a file: the rows get the index labels 0, 1, 2, ...
Frame(cols, cells) ==
    Table(cols, [i \in 1..Len(cells) |->
                    [idx |-> i - 1, cell |-> [c \in cols |-> cells[i][c]]]])

\* The sequences of at most n elements of S.
SeqsUpTo(S, n) == UNION {[1..k -> S] : k \in 0..n}

S_42 == <<"4", "2">>
S_85p0 == <<"8", "5", ".", "0">>
S_abc == <<"a", "b", "c">>
S_20230110 == <<"2", "0", "2", "3", "-", "0", "1", "-", "1", "0">>
S_spMeasureHeight == <<" ">> \o S_MeasureHeight
S_MeasureHeightsp == S_MeasureHeight \o <<" ">>

Jan10 == Date(2023, 1, 10)
Feb10 == Date(2023, 2, 10)
Mar10 == Date(2023, 3, 10)
Apr10 == Date(2023, 4, 10)

\* The end-to-end scenario of child 42, with the label given as kind.
ScenarioCells(kind) ==
    << Row(Num(42), Str(kind), Num(85), Jan10, Str(S_A)),
       Row(Num(42), Str(kind), Num(85), Jan10, Str(S_A)),
       Row(Num(42), Str(kind), Num(999), Feb10, Str(S_A)),
       Row(Num(42), Str(kind), Num(90), Mar10, Str(S_A)),
       Row(Num(42), Str(kind), Null, Apr10, Str(S_A)) >>

ScenarioHeight == Frame(KeyColumns, ScenarioCells(S_Height))
ScenarioMeasureHeight == Frame(KeyColumns, ScenarioCells(S_MeasureHeight))

\* Raw rows of the pipeline runs: one measurement and its variants.
PipeRows ==
    { Row(Num(42), Str(S_MeasureHeight), Num(85), Jan10, Str(S_A)),
      Row(Num(42), Str(S_spMeasureHeight), Num(85), Jan10, Str(S_A)),
      Row(Num(42), Str(S_MeasureHeightsp), Num(85), Jan10, Str(S_A)),
      Row(Str(S_42), Str(S_MeasureHeight), Str(S_85p0), Str(S_20230110), Str(S_A)),
      Row(Num(42), Str(S_MeasureHeight), Num(999), Jan10, Str(S_A)),
      Row(Num(42), Str(S_Height), Num(999), Jan10, Str(S_A)),
      Row(Num(42), Str(S_MeasureBMI), Num(85), Jan10, Str(S_A)),
      Row(Num(42), Str(S_MeasureHeight), Null, Jan10, Str(S_A)),
      Row(Num(42), Null, Num(85), Jan10, Str(S_A)),
      Row(Num(42), Str(S_null), Num(85), Jan10, Str(S_A)),
      Row(Null, Str(S_MeasureHeight), Num(85), Jan10, Str(S_A)),
      Row(Num(42), Str(S_MeasureHeight), Num(85), Null, Str(S_A)),
      Row(Num(42), Str(S_MeasureHeight), Num(85), Mar10, Null),
      Row(Num(7), Str(S_MeasureHeight), Num(85), Mar10, Str(S_nan)),
      Row(Num(42), Str(S_MeasureHeight), Num(85), Num(44927), Str(S_A)) }

\* Column sets of the raw file: all key columns, or one of them absent.
PipeColumnSets == {KeyColumns} \cup {KeyColumns \ {c} : c \in KeyColumns}

PipeInputs ==
    {Frame(KeyColumns, cells) : cells \in SeqsUpTo(PipeRows, MaxPipeRows)}
    \cup {Frame(cols, cells) : cols \in PipeColumnSets, cells \in SeqsUpTo(PipeRows, 1)}
    \cup {ScenarioHeight, ScenarioMeasureHeight}

(***************************************************************************)
(* Pipeline Orchestrator: main                                             *)
(***************************************************************************)
VARIABLES
    pc,              \* position of main
    input_file,      \* the table stored at input_path
    file_exists,     \* Path(input_path).exists()
    argv_no_upload,  \* --no-upload on the command line
    no_upload,       \* args.no_upload
    SnowflakeIntegration,   \* the local of main that holds the imported class
    df_raw, df_step1, df_step2, df_step3, df_cleaned,
    output_file,     \* the table stored at output_path
    calls,           \* the stage functions called so far, in order
    uploads,         \* number of sf.upload_data calls
    upload_result,   \* what sf.upload_data gave main
    exit_code,       \* the value main returned
    arg, ret, ret2, fn   \* a direct call of one stage function

pipeVars == <<pc, input_file, file_exists, argv_no_upload, no_upload,
              SnowflakeIntegration, df_raw, df_step1,
              df_step2, df_step3, df_cleaned, output_file, calls, uploads, upload_result,
              exit_code>>
callVars == <<arg, ret, ret2, fn>>
vars == <<pipeVars, callVars>>

\* A local not assigned yet, a file not written, a value not returned.
Unset == [unset |-> TRUE]

\* Python's None.
None == [none |-> TRUE]

Init ==
    /\ pc = "start"
    /\ input_file \in PipeInputs
    /\ file_exists \in BOOLEAN
    /\ argv_no_upload \in BOOLEAN
    /\ no_upload = argv_no_upload
    /\ SnowflakeIntegration = Unset
    /\ df_raw = Unset /\ df_step1 = Unset /\ df_step2 = Unset
    /\ df_step3 = Unset /\ df_cleaned = Unset
    /\ output_file = Unset
    /\ calls = <<>>
    /\ uploads = 0
    /\ upload_result = Unset
    /\ exit_code = Unset
    /\ arg = Unset /\ ret = Unset /\ ret2 = Unset /\ fn = "none"

\* return <code>
Exit(code) == pc' = "done" /\ exit_code' = [code |-> code]

\* Mutant: a missing input file ends the run with status 0.
CheckInput_ExitZero ==
    /\ pc = "start"
    /\ IF file_exists
       THEN pc' = "import" /\ UNCHANGED exit_code
       ELSE Exit(0)
    /\ UNCHANGED <<input_file, file_exists, argv_no_upload, SnowflakeIntegration,
                   no_upload, df_raw, df_step1,
                   df_step2, df_step3, df_cleaned, output_file, calls, uploads,
                   upload_result, callVars>>

\* if not Path(input_path).exists(): return 1
CheckInput ==
    /\ pc = "start"
    /\ IF file_exists
       THEN pc' = "import" /\ UNCHANGED exit_code
       ELSE Exit(1)
    /\ UNCHANGED <<input_file, file_exists, argv_no_upload, SnowflakeIntegration,
                   no_upload, df_raw, df_step1,
                   df_step2, df_step3, df_cleaned, output_file, calls, uploads,
                   upload_result, callVars>>

\* Mutant: a failed import leaves args.no_upload as it was.
ImportModules_KeepUpload ==
    /\ pc = "import"
    /\ IF no_upload
       THEN SnowflakeIntegration' = None /\ UNCHANGED no_upload
       ELSE \E import_ok \in BOOLEAN :
               /\ SnowflakeIntegration' = IF import_ok THEN [class |-> "SnowflakeIntegration"]
                                          ELSE None
               /\ no_upload' = FALSE
    /\ pc' = "load"
    /\ UNCHANGED <<input_file, file_exists, argv_no_upload, df_raw, df_step1, df_step2,
                   df_step3, df_cleaned, output_file, calls, uploads, upload_result,
                   exit_code, callVars>>

\* SnowflakeIntegration = None, then, with the upload requested, from
\* src.snowflake_integration import SnowflakeIntegration, which may fail:
\* the except sets args.no_upload.
ImportModules ==
    /\ pc = "import"
    /\ IF no_upload
       THEN SnowflakeIntegration' = None /\ UNCHANGED no_upload
       ELSE \E import_ok \in BOOLEAN :
               /\ SnowflakeIntegration' = IF import_ok THEN [class |-> "SnowflakeIntegration"]
                                          ELSE None
               /\ no_upload' = ~import_ok
    /\ pc' = "load"
    /\ UNCHANGED <<input_file, file_exists, argv_no_upload, df_raw, df_step1, df_step2,
                   df_step3, df_cleaned, output_file, calls, uploads, upload_result,
                   exit_code, callVars>>

\* df_raw = pd.read_excel(input_path), which raises on a file it cannot
\* read: the except of main returns 1.
LoadRaw ==
    /\ pc = "load"
    /\ \E readable \in BOOLEAN :
          IF readable
          THEN df_raw' = input_file /\ pc' = "remove_duplicates" /\ UNCHANGED exit_code
          ELSE Exit(1) /\ UNCHANGED df_raw
    /\ UNCHANGED <<input_file, file_exists, argv_no_upload, SnowflakeIntegration,
                   no_upload, df_step1, df_step2,
                   df_step3, df_cleaned, output_file, calls, uploads, upload_result,
                   callVars>>

\* Mutant: the table is saved right after fix_data_types.
PcAfter_SkipFilter(stage) ==
    CASE stage = "remove_duplicates" -> "remove_extreme_values"
      [] stage = "remove_extreme_values" -> "fix_data_types"
      [] stage = "fix_data_types" -> "save"
      [] stage = "remove_missing_critical_data" -> "save"

\* The position of main after a stage has returned its table.
PcAfter(stage) ==
    CASE stage = "remove_duplicates" -> "remove_extreme_values"
      [] stage = "remove_extreme_values" -> "fix_data_types"
      [] stage = "fix_data_types" -> "remove_missing_critical_data"
      [] stage = "remove_missing_critical_data" -> "save"

\* Mutant: an exception of a stage ends the run with 0.
StageDone_ExitZero(stage, r) ==
    /\ calls' = Append(calls, stage)
    /\ IF r.ok
       THEN pc' = PcAfter(stage) /\ UNCHANGED exit_code
       ELSE Exit(0)

\* A stage call inside the try block: an exception ends the run with 1.
StageDone(stage, r) ==
    /\ calls' = Append(calls, stage)
    /\ IF r.ok
       THEN pc' = PcAfter(stage) /\ UNCHANGED exit_code
       ELSE Exit(1)

\* df_step1 = remove_duplicates(df_raw)
StepRemoveDuplicates ==
    /\ pc = "remove_duplicates"
    /\ LET r == remove_duplicates(df_raw)
       IN  /\ StageDone("remove_duplicates", r)
           /\ df_step1' = IF r.ok THEN r.df ELSE df_step1
    /\ UNCHANGED <<input_file, file_exists, argv_no_upload, SnowflakeIntegration,
                   no_upload, df_raw, df_step2, df_step3,
                   df_cleaned, output_file, uploads, upload_result, callVars>>

\* df_step2 = remove_extreme_values(df_step1)
StepRemoveExtremeValues ==
    /\ pc = "remove_extreme_values"
    /\ LET r == remove_extreme_values(df_step1)
       IN  /\ StageDone("remove_extreme_values", r)
           /\ df_step2' = IF r.ok THEN r.df ELSE df_step2
    /\ UNCHANGED <<input_file, file_exists, argv_no_upload, SnowflakeIntegration,
                   no_upload, df_raw, df_step1, df_step3,
                   df_cleaned, output_file, uploads, upload_result, callVars>>

\* df_step3 = fix_data_types(df_step2)
StepFixDataTypes ==
    /\ pc = "fix_data_types"
    /\ LET r == fix_data_types(df_step2)
       IN  /\ StageDone("fix_data_types", r)
           /\ df_step3' = IF r.ok THEN r.df ELSE df_step3
    /\ UNCHANGED <<input_file, file_exists, argv_no_upload, SnowflakeIntegration,
                   no_upload, df_raw, df_step1, df_step2,
                   df_cleaned, output_file, uploads, upload_result, callVars>>

\* df_cleaned = remove_missing_critical_data(df_step3)
StepRemoveMissingCriticalData ==
    /\ pc = "remove_missing_critical_data"
    /\ LET r == remove_missing_critical_data(df_step3)
       IN  /\ StageDone("remove_missing_critical_data", r)
           /\ df_cleaned' = IF r.ok THEN r.df ELSE df_cleaned
    /\ UNCHANGED <<input_file, file_exists, argv_no_upload, SnowflakeIntegration,
                   no_upload, df_raw, df_step1, df_step2,
                   df_step3, output_file, uploads, upload_result, callVars>>

\* Mutant: the derived fields are added before the table is written.
SaveCleaned_Derived ==
    /\ pc = "save"
    /\ \E writable \in BOOLEAN :
          IF writable
          THEN /\ output_file' = create_derived_fields(df_cleaned)
               /\ pc' = "upload"
               /\ UNCHANGED exit_code
          ELSE Exit(1) /\ UNCHANGED output_file
    /\ UNCHANGED <<input_file, file_exists, argv_no_upload, SnowflakeIntegration,
                   no_upload, df_raw, df_step1,
                   df_step2, df_step3, df_cleaned, calls, uploads, upload_result, callVars>>

\* df_cleaned.to_csv(output_path, index=False), which raises when the
\* output file cannot be opened: nothing is written and main returns 1.
SaveCleaned ==
    /\ pc = "save"
    /\ \E writable \in BOOLEAN :
          IF writable
          THEN output_file' = df_cleaned /\ pc' = "upload" /\ UNCHANGED exit_code
          ELSE Exit(1) /\ UNCHANGED output_file
    /\ UNCHANGED <<input_file, file_exists, argv_no_upload, SnowflakeIntegration,
                   no_upload, df_raw, df_step1,
                   df_step2, df_step3, df_cleaned, calls, uploads, upload_result, callVars>>

(***************************************************************************)
(* Upload collaborator: SnowflakeIntegration.upload_data                   *)
(***************************************************************************)
\* The default chunk_size, which main does not override.
ChunkSize == 10000

\* What one write_pandas call can do: report success, report failure, or
\* raise.
WriteOutcomes == {"success", "failure", "raise"}

\* upload_data as called: arg holds the row count of the prepared table
\* and chunk_size; ret the position in upload_data, the offset i of the
\* loop, the write_pandas calls made, the time.sleep calls made (there is
\* none in upload_data) and the row positions written to the remote
\* table; ret2 what upload_data returned.
UploadCall(n, chunk_size) ==
    /\ arg' = [rows |-> n, chunk_size |-> chunk_size]
    /\ ret' = [at |-> "prepare", i |-> 0, log |-> <<>>, sleeps |-> <<>>, table |-> <<>>]
    /\ ret2' = Unset
    /\ fn' = "upload_data"

UploadRunning == fn = "upload_data" /\ ret2 = Unset

\* return True / return False
UploadReturn(result) == ret2' = [result |-> result]

\* df_prepared = self.prepare_data_for_upload(df); an exception goes to
\* the outer except, which returns False.
UploadPrepare ==
    /\ UploadRunning
    /\ ret.at = "prepare"
    /\ \E ok \in BOOLEAN :
          IF ok THEN ret' = [ret EXCEPT !.at = "connect"] /\ UNCHANGED ret2
          ELSE UploadReturn(FALSE) /\ UNCHANGED ret
    /\ UNCHANGED <<pipeVars, arg, fn>>

\* with self.get_connection() as conn: a failed connect is re-raised and
\* caught by the outer except.
UploadConnect ==
    /\ UploadRunning
    /\ ret.at = "connect"
    /\ \E ok \in BOOLEAN :
          IF ok THEN ret' = [ret EXCEPT !.at = "chunk"] /\ UNCHANGED ret2
          ELSE UploadReturn(FALSE) /\ UNCHANGED ret
    /\ UNCHANGED <<pipeVars, arg, fn>>

\* The rows df_prepared.iloc[i:i + chunk_size], as the last position.
ChunkEnd(i) == IF i + arg.chunk_size < arg.rows THEN i + arg.chunk_size - 1 ELSE arg.rows - 1

\* One write_pandas call on the chunk at offset i.
WriteAttempt(try, outcome) ==
    [chunk |-> (ret.i \div arg.chunk_size) + 1, first |-> ret.i, last |-> ChunkEnd(ret.i),
     try |-> try, outcome |-> outcome]

\* The remote table after a write that reported success.
Written == ret.table \o [k \in 1..(ChunkEnd(ret.i) - ret.i + 1) |-> ret.i + k - 1]

\* Mutant: a write that reports failure is followed by the next chunk.
UploadWriteChunk_IgnoreFailure ==
    /\ UploadRunning
    /\ ret.at = "chunk"
    /\ ret.i < arg.rows
    /\ \E outcome \in WriteOutcomes :
          /\ ret' = CASE outcome = "success" ->
                           [ret EXCEPT !.log = Append(@, WriteAttempt(1, outcome)),
                                       !.table = Written,
                                       !.i = @ + arg.chunk_size]
                      [] outcome = "failure" ->
                           [ret EXCEPT !.log = Append(@, WriteAttempt(1, outcome)),
                                       !.i = @ + arg.chunk_size]
                      [] outcome = "raise" ->
                           [ret EXCEPT !.log = Append(@, WriteAttempt(1, outcome)),
                                       !.at = "retry"]
          /\ UNCHANGED ret2
    /\ UNCHANGED <<pipeVars, arg, fn>>

\* The loop body: the first write_pandas call for the chunk at offset i.
UploadWriteChunk ==
    /\ UploadRunning
    /\ ret.at = "chunk"
    /\ ret.i < arg.rows
    /\ \E outcome \in WriteOutcomes :
          /\ ret' = CASE outcome = "success" ->
                           [ret EXCEPT !.log = Append(@, WriteAttempt(1, outcome)),
                                       !.table = Written,
                                       !.i = @ + arg.chunk_size]
                      [] outcome = "failure" ->
                           [ret EXCEPT !.log = Append(@, WriteAttempt(1, outcome))]
                      [] outcome = "raise" ->
                           [ret EXCEPT !.log = Append(@, WriteAttempt(1, outcome)),
                                       !.at = "retry"]
          /\ IF outcome = "failure" THEN UploadReturn(FALSE) ELSE UNCHANGED ret2
    /\ UNCHANGED <<pipeVars, arg, fn>>

\* Mutant: a retry that raises is followed by another retry.
UploadRetryChunk_Again ==
    /\ UploadRunning
    /\ ret.at = "retry"
    /\ \E outcome \in WriteOutcomes :
          /\ ret' = CASE outcome = "success" ->
                           [ret EXCEPT !.log = Append(@, WriteAttempt(2, outcome)),
                                       !.table = Written,
                                       !.i = @ + arg.chunk_size,
                                       !.at = "chunk"]
                      [] OTHER ->
                           [ret EXCEPT !.log = Append(@, WriteAttempt(2, outcome))]
          /\ IF outcome = "failure" THEN UploadReturn(FALSE) ELSE UNCHANGED ret2
    /\ UNCHANGED <<pipeVars, arg, fn>>

\* The except branch: the second write_pandas call for the same chunk,
\* made at once.
UploadRetryChunk ==
    /\ UploadRunning
    /\ ret.at = "retry"
    /\ \E outcome \in WriteOutcomes :
          /\ ret' = CASE outcome = "success" ->
                           [ret EXCEPT !.log = Append(@, WriteAttempt(2, outcome)),
                                       !.table = Written,
                                       !.i = @ + arg.chunk_size,
                                       !.at = "chunk"]
                      [] OTHER ->
                           [ret EXCEPT !.log = Append(@, WriteAttempt(2, outcome))]
          /\ IF outcome = "success" THEN UNCHANGED ret2 ELSE UploadReturn(FALSE)
    /\ UNCHANGED <<pipeVars, arg, fn>>

\* The loop has run through every chunk: return True.
UploadAllChunks ==
    /\ UploadRunning
    /\ ret.at = "chunk"
    /\ ret.i >= arg.rows
    /\ UploadReturn(TRUE)
    /\ UNCHANGED <<pipeVars, arg, ret, fn>>

\* Step 7 with the upload requested: sf.upload_data(df_cleaned, ...).
StartUpload ==
    /\ pc = "upload"
    /\ ~no_upload
    /\ uploads' = uploads + 1
    /\ UploadCall(Len(df_cleaned.rows), ChunkSize)
    /\ pc' = "uploading"
    /\ UNCHANGED <<input_file, file_exists, argv_no_upload, SnowflakeIntegration,
                   no_upload, df_raw, df_step1,
                   df_step2, df_step3, df_cleaned, output_file, calls, upload_result,
                   exit_code>>

\* Mutant: a failed upload removes the file written in step 6.
UploadAndReturn_RemoveOutput ==
    \/ /\ pc = "upload"
       /\ no_upload
       /\ Exit(0)
       /\ UNCHANGED <<upload_result, output_file>>
       /\ UNCHANGED <<input_file, file_exists, argv_no_upload, SnowflakeIntegration,
                   no_upload, df_raw, df_step1,
                      df_step2, df_step3, df_cleaned, calls, uploads, callVars>>
    \/ /\ pc = "uploading"
       /\ ret2 # Unset
       /\ upload_result' = [success |-> ret2.result]
       /\ output_file' = IF ret2.result THEN output_file ELSE Unset
       /\ Exit(IF ret2.result THEN 0 ELSE 1)
       /\ UNCHANGED <<input_file, file_exists, argv_no_upload, SnowflakeIntegration,
                   no_upload, df_raw, df_step1,
                      df_step2, df_step3, df_cleaned, calls, uploads, callVars>>

\* The end of step 7 and the return of main: 0 when the upload was
\* skipped or upload_data returned True, 1 when it returned False.
UploadAndReturn ==
    \/ /\ pc = "upload"
       /\ no_upload
       /\ Exit(0)
       /\ UNCHANGED <<upload_result, output_file>>
       /\ UNCHANGED <<input_file, file_exists, argv_no_upload, SnowflakeIntegration,
                   no_upload, df_raw, df_step1,
                      df_step2, df_step3, df_cleaned, calls, uploads, callVars>>
    \/ /\ pc = "uploading"
       /\ ret2 # Unset
       /\ upload_result' = [success |-> ret2.result]
       /\ Exit(IF ret2.result THEN 0 ELSE 1)
       /\ UNCHANGED output_file
       /\ UNCHANGED <<input_file, file_exists, argv_no_upload, SnowflakeIntegration,
                   no_upload, df_raw, df_step1,
                      df_step2, df_step3, df_cleaned, calls, uploads, callVars>>

NextUploadData ==
    \/ UploadPrepare
    \/ UploadConnect
    \/ UploadWriteChunk
    \/ UploadRetryChunk
    \/ UploadAllChunks

Next ==
    \/ CheckInput
    \/ ImportModules
    \/ LoadRaw
    \/ StepRemoveDuplicates
    \/ StepRemoveExtremeValues
    \/ StepFixDataTypes
    \/ StepRemoveMissingCriticalData
    \/ SaveCleaned
    \/ StartUpload
    \/ NextUploadData
    \/ UploadAndReturn

Spec == Init /\ [][Next]_vars

(***************************************************************************)
(* Direct calls of the stage functions, each on tables of its own domain   *)
(***************************************************************************)
MaxDedupRows == 3
MaxRangeRows == 2
MaxCriticalRows == 2
MaxDeriveRows == 4

\* main does not run: its state stays as before the first step.
PipeIdle ==
    /\ pc = "idle"
    /\ input_file = Unset /\ file_exists = FALSE
    /\ argv_no_upload = TRUE /\ no_upload = TRUE /\ SnowflakeIntegration = Unset
    /\ df_raw = Unset /\ df_step1 = Unset /\ df_step2 = Unset
    /\ df_step3 = Unset /\ df_cleaned = Unset
    /\ output_file = Unset /\ calls = <<>> /\ uploads = 0 /\ upload_result = Unset
    /\ exit_code = Unset

InitCall(inputs) ==
    /\ PipeIdle
    /\ arg \in inputs
    /\ ret = Unset /\ ret2 = Unset /\ fn = "none"

\* ---- Duplicate Resolver ----
SerialCell == Num(44927)

DedupRows ==
    { Row(Num(42), Str(S_MeasureHeight), Num(85), Jan10, Str(S_A)),
      Row(Str(S_42), Str(S_MeasureHeight), Num(85), Jan10, Str(S_A)),
      Row(Num(42), Str(S_MeasureHeight), Str(S_85p0), Jan10, Str(S_A)),
      Row(Num(42), Str(S_MeasureHeight), Num(85), Str(S_20230110), Str(S_A)),
      Row(Num(42), Str(S_spMeasureHeight), Num(85), Jan10, Str(S_A)),
      Row(Num(42), Str(S_MeasureHeight), Num(85), Jan10, Str(S_B)),
      Row(Num(42), Str(S_MeasureHeight), Num(90), Mar10, Str(S_A)),
      Row(Num(7), Str(S_MeasureHeight), Num(85), Jan10, Str(S_A)),
      Row(Null, Str(S_MeasureHeight), Num(85), Jan10, Str(S_A)),
      Row(Str(S_abc), Str(S_MeasureHeight), Num(85), Jan10, Str(S_A)),
      Row(Num(42), Null, Num(85), Jan10, Str(S_A)),
      Row(Num(42), Str(S_nan), Num(85), Jan10, Str(S_A)),
      Row(Num(42), Str(S_MeasureHeight), Null, Jan10, Null),
      Row(Num(42), Str(S_MeasureHeight), Num(85), SerialCell, Str(S_A)) }

DedupInputs == {Frame(KeyColumns, cells) : cells \in SeqsUpTo(DedupRows, MaxDedupRows)}

InitDedup == InitCall(DedupInputs)

CallRemoveDuplicates ==
    /\ fn = "none"
    /\ ret' = remove_duplicates(arg)
    /\ fn' = "remove_duplicates"
    /\ UNCHANGED <<pipeVars, arg, ret2>>

\* The Duplicate Resolver run on its own output.
CallRemoveDuplicatesAgain ==
    /\ fn = "remove_duplicates"
    /\ ret.ok
    /\ ret2' = remove_duplicates(ret.df)
    /\ fn' = "remove_duplicates twice"
    /\ UNCHANGED <<pipeVars, arg, ret>>

NextDedup == CallRemoveDuplicates \/ CallRemoveDuplicatesAgain

SpecDedup == InitDedup /\ [][NextDedup]_vars

\* ---- Range Validator ----
S_999 == <<"9", "9", "9">>

Reading(kind, value) == Row(Num(42), kind, value, Jan10, Str(S_A))

RangeRows ==
    {Reading(Str(S_MeasureHeight), Num(v)) : v \in {39, 40, 85, 200, 201}}
    \cup {Reading(Str(S_MeasureBMI), Num(v)) : v \in {4, 5, 50, 51}}
    \cup {Reading(Str(S_Height), Num(v)) : v \in {0 - 1, 0, 39, 999, 1000, 1001}}
    \cup {Reading(Str(S_BMI), Num(v)) : v \in {4, 51, 1001}}
    \cup {Reading(Str(S_Weight), Num(v)) : v \in {0 - 1, 0, 1000, 1001}}
    \cup {Reading(Null, Num(v)) : v \in {0 - 1, 1000, 1001}}
    \cup {Reading(Str(S_MeasureHeight), c) : c \in {Null, Str(S_abc), Str(S_999)}}
    \cup {Reading(kind, c) : kind \in {Str(S_Weight), Str(S_MeasureBMI), Str(S_Height), Null},
                              c \in {Null, Str(S_abc)}}

RangeInputs == {Frame(KeyColumns, cells) : cells \in SeqsUpTo(RangeRows, MaxRangeRows)}

InitRange == InitCall(RangeInputs)

CallRemoveExtremeValues ==
    /\ fn = "none"
    /\ ret' = remove_extreme_values(arg)
    /\ fn' = "remove_extreme_values"
    /\ UNCHANGED <<pipeVars, arg, ret2>>

NextRange == CallRemoveExtremeValues

SpecRange == InitRange /\ [][NextRange]_vars

\* ---- Completeness Filter ----
\* The ways a raw cell says "missing".
MissingCells ==
    {Null, Str(S_empty), Str(S_blank), Str(<<" ", " ">>),
     Str(S_nan), Str(S_None), Str(S_null), Str(S_NULL)}

CriticalRows ==
    { Row(Num(42), Str(S_MeasureHeight), Num(85), Jan10, Str(S_A)),
      Row(Str(S_42), Str(S_spMeasureHeight), Str(S_85p0), Str(S_20230110), Null),
      Row(Num(7), Str(S_Weight), Num(0), Mar10, Str(S_B)),
      Row(Str(S_abc), Str(S_MeasureHeight), Num(85), Jan10, Str(S_A)),
      Row(Num(42), Str(S_MeasureHeight), Str(S_abc), Jan10, Str(S_A)),
      Row(Num(42), Str(S_MeasureHeight), Num(85), Str(S_abc), Str(S_A)) }
    \cup {Row(m, Str(S_MeasureHeight), Num(85), Jan10, Str(S_A)) : m \in MissingCells}
    \cup {Row(Num(42), m, Num(85), Jan10, Str(S_A)) : m \in MissingCells}
    \cup {Row(Num(42), Str(S_MeasureHeight), m, Jan10, Str(S_A)) : m \in MissingCells}
    \cup {Row(Num(42), Str(S_MeasureHeight), Num(85), m, Str(S_A)) : m \in MissingCells}

CriticalInputs ==
    {Frame(KeyColumns, cells) : cells \in SeqsUpTo(CriticalRows, MaxCriticalRows)}

InitCritical == InitCall(CriticalInputs)

CallRemoveMissingCriticalData ==
    /\ fn = "none"
    /\ ret' = remove_missing_critical_data(arg)
    /\ fn' = "remove_missing_critical_data"
    /\ UNCHANGED <<pipeVars, arg, ret2>>

NextCritical == CallRemoveMissingCriticalData

SpecCritical == InitCritical /\ [][NextCritical]_vars

\* ---- Longitudinal Field Deriver ----
\* Fully cleaned rows: a child id and a capture timestamp, none missing.

DeriveRows ==
    {Row(Num(id), Str(S_MeasureHeight), Num(85), date, Str(S_A)) :
        id \in {1, 2}, date \in {Jan10, Feb10, Mar10}}
    \cup {Row(Num(1), Str(S_MeasureHeight), Num(85), Timestamp(Jan10.d, 43200), Str(S_A))}

DeriveInputs == {Frame(KeyColumns, cells) : cells \in SeqsUpTo(DeriveRows, MaxDeriveRows)}

InitDerive == InitCall(DeriveInputs)

CallCreateDerivedFields ==
    /\ fn = "none"
    /\ ret' = Return(create_derived_fields(arg))
    /\ fn' = "create_derived_fields"
    /\ UNCHANGED <<pipeVars, arg, ret2>>

CallValidateDerivedFields ==
    /\ fn = "create_derived_fields"
    /\ ret2' = [valid |-> validate_derived_fields(ret.df)]
    /\ fn' = "validate_derived_fields"
    /\ UNCHANGED <<pipeVars, arg, ret>>

NextDerive == CallCreateDerivedFields \/ CallValidateDerivedFields

SpecDerive == InitDerive /\ [][NextDerive]_vars

\* ---- The three filters on tables that lack columns ----
MaxSchemaRows == 1

SchemaRows ==
    { Row(Num(42), Str(S_MeasureHeight), Num(85), Jan10, Str(S_A)),
      Row(Num(42), Str(S_MeasureHeight), Num(999), Jan10, Str(S_A)),
      Row(Num(42), Str(S_MeasureHeight), Null, Jan10, Str(S_A)) }

\* Tables with any subset of the key columns, the empty table included.
SchemaInputs ==
    {Frame(cols, cells) : cols \in SUBSET KeyColumns,
                          cells \in SeqsUpTo(SchemaRows, MaxSchemaRows)}

InitSchema == InitCall(SchemaInputs)

NextSchema ==
    \/ CallRemoveDuplicates
    \/ CallRemoveExtremeValues
    \/ CallRemoveMissingCriticalData

SpecSchema == InitSchema /\ [][NextSchema]_vars

\* ---- Type Normalizer ----
MaxTypeRows == 2

TypeColumns == {"BeneficiaryId", "Answer", "Capture Date", "Flagged"}

TypeRow(id, value, date, flagged) ==
    [c \in TypeColumns |->
        CASE c = "BeneficiaryId" -> id
          [] c = "Answer" -> value
          [] c = "Capture Date" -> date
          [] c = "Flagged" -> flagged]

\* A clean record, and records with one raw cell in another encoding:
\* dates as text, as serial numbers (one of them beyond the Timedelta
\* range) and as small numbers; values and ids as text; flags of every
\* kind.
TypeRows ==
    {TypeRow(Num(42), Num(85), date, Num(1)) :
        date \in {Jan10, Str(S_20230110), Str(S_abc), Null, SerialCell, Num(44928),
                  Num(200000), Num(60)}}
    \cup {TypeRow(Num(42), value, Jan10, Num(1)) : value \in {Str(S_85p0), Str(S_abc), Null}}
    \cup {TypeRow(id, Num(85), Jan10, Num(1)) : id \in {Str(S_42), Str(S_abc), Null}}
    \cup {TypeRow(Num(42), Num(85), Jan10, flagged) :
             flagged \in {Num(0), Num(2), Num(0 - 1), Str(S_42), Str(S_abc), Null}}
    \cup {TypeRow(Num(42), Num(85), SerialCell, Num(5))}

\* Column sets of the argument: the four columns, or one of them absent.
TypeColumnSets == {TypeColumns} \cup {TypeColumns \ {c} : c \in TypeColumns}

TypeInputs ==
    {Frame(cols, cells) : cols \in TypeColumnSets, cells \in SeqsUpTo(TypeRows, MaxTypeRows)}

InitTypes == InitCall(TypeInputs)

CallFixDataTypes ==
    /\ fn = "none"
    /\ ret' = fix_data_types(arg)
    /\ fn' = "fix_data_types"
    /\ UNCHANGED <<pipeVars, arg, ret2>>

NextTypes == CallFixDataTypes

SpecTypes == InitTypes /\ [][NextTypes]_vars

\* ---- The stage functions on table objects ----
\* A heap is the sequence of the table objects that exist; a reference is
\* a position in it.  The caller's table is the object at reference 1.
MaxFrameRows == 2

\* Mutant: the working table is the caller's table itself.
copy_Alias(h, r) == [heap |-> h, ref |-> r]

\* df.copy(): a new object with the same cells.
copy(h, r) == [heap |-> Append(h, h[r]), ref |-> Len(h) + 1]

\* An operation that returns a new table (drop_duplicates, boolean
\* indexing, sort_values).
new_object(h, df) == [heap |-> Append(h, df), ref |-> Len(h) + 1]

\* df_processed[col] = ...: the object at r gets new cells.
assign(h, r, df) == [h EXCEPT ![r] = df]

Returned(h, r) == [heap |-> h, ok |-> TRUE, ref |-> r]
Raised(h, exc, missing) == [heap |-> h, ok |-> FALSE, exc |-> exc, missing |-> missing]

remove_duplicates_obj(h, r) ==
    IF empty(h[r]) THEN Returned(h, r)
    ELSE IF Len(MissingColumns(DedupColumns, h[r].cols)) > 0
         THEN Raised(h, "ValueError", MissingColumns(DedupColumns, h[r].cols))
         ELSE LET df_processed == copy(h, r)
                  p == df_processed.ref
                  h2 == assign(df_processed.heap, p,
                               Table(h[r].cols, DedupCoerce(df_processed.heap[p].rows)))
                  df_clean == new_object(h2, Table(h[r].cols,
                                                   drop_duplicates(h2[p].rows, DedupColumns)))
              IN  Returned(df_clean.heap, df_clean.ref)

remove_extreme_values_obj(h, r) ==
    IF empty(h[r]) THEN Returned(h, r)
    ELSE IF Len(MissingColumns(RangeColumns, h[r].cols)) > 0
         THEN Raised(h, "ValueError", MissingColumns(RangeColumns, h[r].cols))
         ELSE LET df_processed == copy(h, r)
                  p == df_processed.ref
                  h2 == assign(df_processed.heap, p,
                               Table(h[r].cols, RangeCoerce(df_processed.heap[p].rows)))
                  df_clean == new_object(h2, Table(h[r].cols,
                                                   Select(h2[p].rows, RangeKeep(h2[p].rows))))
              IN  Returned(df_clean.heap, df_clean.ref)

remove_missing_critical_data_obj(h, r) ==
    IF empty(h[r]) THEN Returned(h, r)
    ELSE IF Len(MissingColumns(CriticalColumns, h[r].cols)) > 0
         THEN Raised(h, "ValueError", MissingColumns(CriticalColumns, h[r].cols))
         ELSE LET df_processed == copy(h, r)
                  p == df_processed.ref
                  h2 == assign(df_processed.heap, p,
                               Table(h[r].cols,
                                     CleanNullTokens(CriticalCoerce(df_processed.heap[p].rows),
                                                     CriticalColumns)))
                  df_clean == new_object(h2, Table(h[r].cols,
                                                   Select(h2[p].rows, CriticalKeep(h2[p].rows))))
              IN  Returned(df_clean.heap, df_clean.ref)

fix_data_types_obj(h, r) ==
    IF empty(h[r]) THEN Returned(h, r)
    ELSE LET df_clean == copy(h, r)
             p == df_clean.ref
         IN  Returned(assign(df_clean.heap, p, fix_data_types(df_clean.heap[p]).df), p)

create_derived_fields_obj(h, r) ==
    LET sorted == new_object(h, Table(h[r].cols, sort_values(h[r].rows)))
        df_sorted == copy(sorted.heap, sorted.ref)
        p == df_sorted.ref
    IN  Returned(assign(df_sorted.heap, p, create_derived_fields(df_sorted.heap[p])), p)

Stages ==
    {"remove_duplicates", "remove_extreme_values", "fix_data_types",
     "remove_missing_critical_data", "create_derived_fields"}

StageObj(f, h, r) ==
    CASE f = "remove_duplicates" -> remove_duplicates_obj(h, r)
      [] f = "remove_extreme_values" -> remove_extreme_values_obj(h, r)
      [] f = "fix_data_types" -> fix_data_types_obj(h, r)
      [] f = "remove_missing_critical_data" -> remove_missing_critical_data_obj(h, r)
      [] f = "create_derived_fields" -> create_derived_fields_obj(h, r)

\* Clean and raw records: text in place of numbers and dates, a label
\* with a leading space, a null token, an out-of-range value, a serial.
FrameRows ==
    { Row(Num(42), Str(S_MeasureHeight), Num(85), Mar10, Str(S_A)),
      Row(Num(42), Str(S_MeasureHeight), Num(90), Jan10, Str(S_A)),
      Row(Num(7), Str(S_MeasureHeight), Num(85), Feb10, Str(S_A)),
      Row(Str(S_42), Str(S_spMeasureHeight), Str(S_85p0), Str(S_20230110), Null),
      Row(Num(42), Str(S_MeasureHeight), Num(999), Jan10, Str(S_A)),
      Row(Num(42), Str(S_null), Null, Str(S_abc), Str(S_A)),
      Row(Num(42), Str(S_MeasureHeight), Num(85), SerialCell, Str(S_A)) }

FrameInputs ==
    {Frame(KeyColumns, cells) : cells \in SeqsUpTo(FrameRows, MaxFrameRows)}
    \cup {Frame(cols, cells) : cols \in PipeColumnSets, cells \in SeqsUpTo(FrameRows, 1)}

\* What create_derived_fields needs of its argument: numeric ids and
\* timestamps (the tables the Completeness Filter returns).
Cleaned(df) ==
    /\ {"BeneficiaryId", "Capture Date"} \subseteq df.cols
    /\ \A i \in 1..Len(df.rows) :
          /\ df.rows[i].cell["BeneficiaryId"].t = "num"
          /\ df.rows[i].cell["Capture Date"].t = "date"

InitFrame == InitCall(FrameInputs)

\* result = f(df): ret is what the caller gets, ret2 the caller's own
\* table after the call.
CallStage(f) ==
    /\ fn = "none"
    /\ f = "create_derived_fields" => Cleaned(arg)
    /\ \E res \in {StageObj(f, <<arg>>, 1)} :
          /\ ret' = IF res.ok THEN Return(res.heap[res.ref])
                    ELSE Raise(res.exc, res.missing)
          /\ ret2' = [after |-> res.heap[1], same_object |-> res.ok /\ res.ref = 1]
    /\ fn' = f
    /\ UNCHANGED <<pipeVars, arg>>

NextFrame == \E f \in Stages : CallStage(f)

SpecFrame == InitFrame /\ [][NextFrame]_vars

\* ---- Upload collaborator ----
MaxUploadRows == 4
MaxChunkSize == 2

\* upload_data called on a prepared table of 0 to MaxUploadRows rows with
\* a chunk_size of 1 to MaxChunkSize.
InitUpload ==
    /\ PipeIdle
    /\ \E n \in 0..MaxUploadRows, chunk_size \in 1..MaxChunkSize :
          /\ arg = [rows |-> n, chunk_size |-> chunk_size]
          /\ ret = [at |-> "prepare", i |-> 0, log |-> <<>>, sleeps |-> <<>>, table |-> <<>>]
    /\ ret2 = Unset
    /\ fn = "upload_data"

NextUpload == NextUploadData

SpecUpload == InitUpload /\ [][NextUpload]_vars

\* ---- Dashboard database: execute_query_with_retry ----
MaxRetries == 3

\* What one execute_query call can do: return a result or raise an error.
QueryOutcomes ==
    {[ok |-> TRUE, val |-> v] : v \in {"rows_a", "rows_b"}}
        \cup {[ok |-> FALSE, val |-> e] : e \in {"OperationalError", "ProgrammingError"}}

\* self.execute_query(query, params), as an entry of the trace.
QueryCall(attempt, outcome) ==
    [ev |-> "execute_query", attempt |-> attempt, query |-> arg.query, ok |-> outcome.ok,
     val |-> outcome.val, secs |-> 0]

\* time.sleep(wait_time), as an entry of the trace.
Sleep(attempt, secs) ==
    [ev |-> "sleep", attempt |-> attempt, query |-> arg.query, ok |-> FALSE, val |-> "",
     secs |-> secs]

\* Mutant: the wait doubles from 2 seconds.
wait_time_FromTwo(attempt) == 2 ^ (attempt + 1)

\* wait_time = 2 ** attempt
wait_time(attempt) == 2 ^ attempt

\* execute_query_with_retry(query, params, max_retries) called: ret holds
\* the position, the loop variable, the exception caught and the trace of
\* execute_query and time.sleep calls; ret2 what the call returned or
\* raised.
InitRetry ==
    /\ PipeIdle
    /\ \E query \in {"SELECT 1", "SELECT 2"}, max_retries \in 0..MaxRetries :
          arg = [query |-> query, max_retries |-> max_retries]
    /\ ret = [at |-> "for", attempt |-> 0, e |-> "", trace |-> <<>>]
    /\ ret2 = Unset
    /\ fn = "execute_query_with_retry"

RetryRunning == fn = "execute_query_with_retry" /\ ret2 = Unset

\* try: return self.execute_query(query, params)
RetryExecute ==
    /\ RetryRunning
    /\ ret.at = "for"
    /\ ret.attempt < arg.max_retries
    /\ \E outcome \in QueryOutcomes :
          IF outcome.ok
          THEN /\ ret' = [ret EXCEPT !.trace = Append(@, QueryCall(ret.attempt, outcome))]
               /\ ret2' = [returned |-> outcome.val]
          ELSE /\ ret' = [ret EXCEPT !.trace = Append(@, QueryCall(ret.attempt, outcome)),
                                     !.at = "except", !.e = outcome.val]
               /\ UNCHANGED ret2
    /\ UNCHANGED <<pipeVars, arg, fn>>

\* except, if attempt < max_retries - 1: time.sleep(2 ** attempt), then
\* the next iteration.
RetryBackoff ==
    /\ RetryRunning
    /\ ret.at = "except"
    /\ ret.attempt < arg.max_retries - 1
    /\ ret' = [ret EXCEPT !.trace = Append(@, Sleep(ret.attempt, wait_time(ret.attempt))),
                          !.attempt = @ + 1, !.at = "for"]
    /\ UNCHANGED <<pipeVars, arg, ret2, fn>>

\* except, else: raise
RetryRaise ==
    /\ RetryRunning
    /\ ret.at = "except"
    /\ ~(ret.attempt < arg.max_retries - 1)
    /\ ret2' = [raised |-> ret.e]
    /\ UNCHANGED <<pipeVars, arg, ret, fn>>

\* range(max_retries) is exhausted without a return or a raise, which
\* happens only for max_retries < 1: the function returns None.
RetryLoopEnd ==
    /\ RetryRunning
    /\ ret.at = "for"
    /\ ~(ret.attempt < arg.max_retries)
    /\ ret2' = [returned |-> None]
    /\ UNCHANGED <<pipeVars, arg, ret, fn>>

NextRetry ==
    \/ RetryExecute
    \/ RetryBackoff
    \/ RetryRaise
    \/ RetryLoopEnd

SpecRetry == InitRetry /\ [][NextRetry]_vars

(***************************************************************************)
(* Properties                                                              *)
(***************************************************************************)
\* The index labels of the rows of a table, in row order.
Labels(rows) == [i \in 1..Len(rows) |-> rows[i].idx]

\* The position of the row labelled x.
PosOf(rows, x) == CHOOSE i \in 1..Len(rows) : rows[i].idx = x

\* The composite key of a raw row: numeric id, string kind, numeric value,
\* date, string site.
CompositeKey(row) ==
    << to_numeric(row.cell["BeneficiaryId"]),
       astype_str(row.cell["DatapointName"]),
       to_numeric(row.cell["Answer"]),
       to_datetime(row.cell["Capture Date"]),
       astype_str(row.cell["Site"]) >>

\* The five key cells of a row as they stand.
KeyCells(row) ==
    << row.cell["BeneficiaryId"], row.cell["DatapointName"], row.cell["Answer"],
       row.cell["Capture Date"], row.cell["Site"] >>

\* The labels of the rows that are the first of their composite key.
FirstOfKey(rows) ==
    {rows[i].idx : i \in
        {i \in 1..Len(rows) :
            \A j \in 1..(i - 1) : CompositeKey(rows[j]) # CompositeKey(rows[i])}}

\* C4: the output of the Duplicate Resolver has no two rows with the same
\* composite key, holds for each key of the input exactly the first input
\* row carrying it, and keeps the surviving rows in their input order.
C4_FirstPerKey ==
    fn = "remove_duplicates" =>
        /\ ret.ok
        /\ LET out == ret.df.rows
           IN  /\ \A i, j \in 1..Len(out) :
                      i # j => /\ KeyCells(out[i]) # KeyCells(out[j])
                               /\ CompositeKey(arg.rows[PosOf(arg.rows, out[i].idx)])
                                    # CompositeKey(arg.rows[PosOf(arg.rows, out[j].idx)])
               /\ {out[i].idx : i \in 1..Len(out)} = FirstOfKey(arg.rows)
               /\ \A i, j \in 1..Len(out) :
                      i < j => PosOf(arg.rows, out[i].idx) < PosOf(arg.rows, out[j].idx)

\* C4 witness: three rows, the first and the last of one key under
\* different raw cells, and the Resolver kept the first two.
C4_Witness ==
    /\ fn = "remove_duplicates"
    /\ Len(arg.rows) = 3
    /\ KeyCells(arg.rows[1]) # KeyCells(arg.rows[3])
    /\ CompositeKey(arg.rows[1]) = CompositeKey(arg.rows[3])
    /\ CompositeKey(arg.rows[1]) # CompositeKey(arg.rows[2])
    /\ Labels(ret.df.rows) = <<0, 1>>

\* C5: the Duplicate Resolver run on its own output returns that output:
\* the same rows in the same order, none removed.
C5_Idempotent ==
    fn = "remove_duplicates twice" => ret2.ok /\ ret2.df = ret.df

\* C5 witness: the first run removed a row and kept more than one.
C5_Witness ==
    /\ fn = "remove_duplicates twice"
    /\ Len(ret.df.rows) < Len(arg.rows)
    /\ Len(ret.df.rows) > 1
    /\ Len(ret2.df.rows) = Len(ret.df.rows)

InRange(c, lo, hi) == c.t = "num" /\ lo <= c.n /\ c.n <= hi

\* The raw row that a row of the result of a direct call comes from.
Origin(row) == arg.rows[PosOf(arg.rows, row.idx)]

\* C6 as stated: in the Range Validator's output a row with a present value
\* has it in [40, 200] under the kind "Height", in [5, 50] under the kind
\* "BMI" and in [0, 1000] under any other kind, and the rows at the ends of
\* the matching interval are kept.
C6_RangeByHeightBmi ==
    fn = "remove_extreme_values" =>
        /\ \A i \in 1..Len(ret.df.rows) :
              LET kind == ret.df.rows[i].cell["DatapointName"]
                  value == ret.df.rows[i].cell["Answer"]
              IN  ~isnull(value) =>
                      IF kind = Str(S_Height) THEN InRange(value, 40, 200)
                      ELSE IF kind = Str(S_BMI) THEN InRange(value, 5, 50)
                      ELSE InRange(value, 0, 1000)
        /\ \A i \in 1..Len(arg.rows) :
              LET kind == astype_str(arg.rows[i].cell["DatapointName"])
                  value == to_numeric(arg.rows[i].cell["Answer"])
              IN  (IF kind = Str(S_Height) THEN value \in {Num(40), Num(200)}
                   ELSE IF kind = Str(S_BMI) THEN value \in {Num(5), Num(50)}
                   ELSE value \in {Num(0), Num(1000)})
                  => \E j \in 1..Len(ret.df.rows) : ret.df.rows[j].idx = arg.rows[i].idx

\* C6 amended: the same with the labels the code tests, "Measure: Height"
\* for [40, 200] and "Measure BMI" for [5, 50]; every other label, "Height"
\* and "BMI" among them, is held to [0, 1000].
C6_RangeByLabel ==
    fn = "remove_extreme_values" =>
        /\ ret.ok
        /\ \A i \in 1..Len(ret.df.rows) :
              LET kind == ret.df.rows[i].cell["DatapointName"]
                  value == ret.df.rows[i].cell["Answer"]
              IN  ~isnull(value) =>
                      IF kind = Str(S_MeasureHeight) THEN InRange(value, 40, 200)
                      ELSE IF kind = Str(S_MeasureBMI) THEN InRange(value, 5, 50)
                      ELSE InRange(value, 0, 1000)
        /\ \A i \in 1..Len(arg.rows) :
              LET kind == astype_str(arg.rows[i].cell["DatapointName"])
                  value == to_numeric(arg.rows[i].cell["Answer"])
              IN  (IF kind = Str(S_MeasureHeight) THEN value \in {Num(40), Num(200)}
                   ELSE IF kind = Str(S_MeasureBMI) THEN value \in {Num(5), Num(50)}
                   ELSE value \in {Num(0), Num(1000)})
                  => \E j \in 1..Len(ret.df.rows) : ret.df.rows[j].idx = arg.rows[i].idx

\* C6 witness: a "Measure: Height" row of 201 was removed and the upper end
\* 200 of the interval was kept.
C6_Witness ==
    /\ fn = "remove_extreme_values"
    /\ Len(arg.rows) = 2
    /\ arg.rows[1].cell["DatapointName"] = Str(S_MeasureHeight)
    /\ arg.rows[1].cell["Answer"] = Num(201)
    /\ arg.rows[2].cell["DatapointName"] = Str(S_MeasureHeight)
    /\ arg.rows[2].cell["Answer"] = Num(200)
    /\ Labels(ret.df.rows) = <<1>>

CriticalSet == {"BeneficiaryId", "Answer", "Capture Date", "DatapointName"}

\* A raw cell that encodes a missing value: a true null, the empty string,
\* a whitespace-only string, or one of the tokens nan, None, null, NULL.
EncodesMissing(c) ==
    \/ isnull(c)
    \/ /\ c.t = "str"
       /\ (strip(c.s) = <<>> \/ c.s \in {S_nan, S_None, S_null, S_NULL})

\* C7: every row of the Completeness Filter's output has a non-null
\* child_id, value, capture_date and kind, and comes from no raw row that
\* encoded one of the four as missing.
C7_Complete ==
    fn = "remove_missing_critical_data" =>
        /\ ret.ok
        /\ \A i \in 1..Len(ret.df.rows) : \A col \in CriticalSet :
              /\ ~EncodesMissing(ret.df.rows[i].cell[col])
              /\ ~EncodesMissing(Origin(ret.df.rows[i]).cell[col])

\* C7 witness: a row with a whitespace-only kind was dropped, the complete
\* row after it was kept.
C7_Witness ==
    /\ fn = "remove_missing_critical_data"
    /\ Len(arg.rows) = 2
    /\ arg.rows[1].cell["DatapointName"] = Str(S_blank)
    /\ \A col \in CriticalSet : ~EncodesMissing(arg.rows[1].cell[col]) \/ col = "DatapointName"
    /\ Labels(ret.df.rows) = <<1>>

\* A raw row whose four required fields are present after the
\* null-representation normalization.
PresentAfterNormalization(row) ==
    /\ ~isnull(to_numeric(row.cell["BeneficiaryId"]))
    /\ ~isnull(to_numeric(row.cell["Answer"]))
    /\ ~isnull(to_datetime(row.cell["Capture Date"]))
    /\ strip(astype_str(row.cell["DatapointName"]).s) \notin {S_empty, S_nan, S_None, S_null, S_NULL}

\* C8: the Completeness Filter keeps exactly the rows with all four
\* required fields present after normalization, in their input order.
C8_DropsIffMissing ==
    fn = "remove_missing_critical_data" =>
        /\ ret.ok
        /\ Labels(ret.df.rows) = Labels(SelectSeq(arg.rows, PresentAfterNormalization))

\* C8 witness: a row with an unparseable date was dropped and a row
\* holding its id as text was kept.
C8_Witness ==
    /\ fn = "remove_missing_critical_data"
    /\ Len(arg.rows) = 2
    /\ arg.rows[1].cell["Capture Date"] = Str(S_abc)
    /\ arg.rows[2].cell["BeneficiaryId"] = Str(S_42)
    /\ Labels(ret.df.rows) = <<1>>

\* The rows of child id among rows, as positions.
RowsOf(rows, id) == {i \in 1..Len(rows) : rows[i].cell["BeneficiaryId"] = id}

ChildIds(rows) == {rows[i].cell["BeneficiaryId"] : i \in 1..Len(rows)}

\* C9: in the Deriver's output every child of the input has exactly one
\* row marked first and at least one row marked latest.
C9_OneFirstSomeLatest ==
    fn \in {"create_derived_fields", "validate_derived_fields"} =>
        LET out == ret.df.rows
        IN  /\ ChildIds(out) = ChildIds(arg.rows)
            /\ \A id \in ChildIds(arg.rows) :
                  /\ Cardinality({i \in RowsOf(out, id) :
                                     out[i].cell["is_first_measurement"] = Num(1)}) = 1
                  /\ Cardinality({i \in RowsOf(out, id) :
                                     out[i].cell["is_latest_measurement"] = Num(1)}) >= 1

\* C9 witness: one child with a single record, another whose two records
\* share one capture date.
C9_Witness ==
    /\ fn = "create_derived_fields"
    /\ Cardinality(RowsOf(arg.rows, Num(2))) = 1
    /\ Cardinality(RowsOf(arg.rows, Num(1))) = 2
    /\ \A i \in RowsOf(arg.rows, Num(1)) : arg.rows[i].cell["Capture Date"] = Feb10
    /\ Cardinality({i \in RowsOf(ret.df.rows, Num(1)) :
                       ret.df.rows[i].cell["is_latest_measurement"] = Num(1)}) = 2

\* The earliest capture timestamp of child id in the raw rows.
MinCapture(rows, id) ==
    LET m == CHOOSE j \in RowsOf(rows, id) :
                 \A k \in RowsOf(rows, id) :
                     ts_le(rows[j].cell["Capture Date"], rows[k].cell["Capture Date"])
    IN  rows[m].cell["Capture Date"]

\* C10: a row marked first has days_since_first_measurement 0, and every
\* row has its capture date minus its child's earliest capture date, in
\* whole days, which is not negative.
C10_FirstRowZero ==
    fn \in {"create_derived_fields", "validate_derived_fields"} =>
        \A i \in 1..Len(ret.df.rows) :
            LET row == ret.df.rows[i]
                first == MinCapture(arg.rows, row.cell["BeneficiaryId"])
            IN  /\ row.cell["is_first_measurement"] = Num(1)
                       => row.cell["days_since_first_measurement"] = Num(0)
                /\ row.cell["days_since_first_measurement"]
                       = Num((row.cell["Capture Date"].d - first.d)
                             - (IF row.cell["Capture Date"].ns < first.ns THEN 1 ELSE 0))
                /\ row.cell["days_since_first_measurement"].n >= 0

\* C10 witness: a child whose later record comes first in the input; the
\* output puts the earlier one first with offset 0 and the later at 59.
C10_Witness ==
    /\ fn = "create_derived_fields"
    /\ Len(arg.rows) = 2
    /\ arg.rows[1].cell["BeneficiaryId"] = Num(1)
    /\ arg.rows[2].cell["BeneficiaryId"] = Num(1)
    /\ arg.rows[1].cell["Capture Date"] = Mar10
    /\ arg.rows[2].cell["Capture Date"] = Jan10
    /\ Labels(ret.df.rows) = <<1, 0>>
    /\ ret.df.rows[1].cell["is_first_measurement"] = Num(1)
    /\ ret.df.rows[1].cell["days_since_first_measurement"] = Num(0)
    /\ ret.df.rows[2].cell["days_since_first_measurement"] = Num(59)

\* The stage calls of a complete run of main, in the order main makes them.
MainOrder ==
    <<"remove_duplicates", "remove_extreme_values", "fix_data_types",
      "remove_missing_critical_data">>

ScenarioExpected(df) ==
    /\ Len(df.rows) = 2
    /\ DerivedColumns \subseteq df.cols
    /\ df.rows[1].cell["Capture Date"] = Jan10
    /\ df.rows[1].cell["is_first_measurement"] = Num(1)
    /\ df.rows[1].cell["days_since_first_measurement"] = Num(0)
    /\ df.rows[1].cell["days_since_previous_measurement"] = Null
    /\ df.rows[2].cell["Capture Date"] = Mar10
    /\ df.rows[2].cell["is_latest_measurement"] = Num(1)
    /\ df.rows[2].cell["days_since_first_measurement"] = Num(59)
    /\ df.rows[2].cell["days_since_previous_measurement"] = Num(59)

C3_NoDuplicateKeys ==
    output_file # Unset =>
        \A i, j \in 1..Len(output_file.rows) :
            i # j => KeyCells(output_file.rows[i]) # KeyCells(output_file.rows[j])

\* The latest capture timestamp of child id in the raw rows.
MaxCapture(rows, id) ==
    LET m == CHOOSE j \in RowsOf(rows, id) :
                 \A k \in RowsOf(rows, id) :
                     ts_le(rows[k].cell["Capture Date"], rows[j].cell["Capture Date"])
    IN  rows[m].cell["Capture Date"]

\* C11: a row of the Deriver's output is marked latest exactly when its
\* capture date equals the greatest capture date of its child in the
\* input, so every record sharing that date is marked.
C11_LatestIffMax ==
    fn \in {"create_derived_fields", "validate_derived_fields"} =>
        \A i \in 1..Len(ret.df.rows) :
            LET row == ret.df.rows[i]
            IN  /\ row.cell["is_latest_measurement"] \in {Num(0), Num(1)}
                /\ row.cell["is_latest_measurement"] = Num(1)
                       <=> row.cell["Capture Date"]
                               = MaxCapture(arg.rows, row.cell["BeneficiaryId"])

\* C11 witness: a child with three records, two of them on its greatest
\* date; both are marked latest and the earlier one is not.
C11_Witness ==
    /\ fn = "create_derived_fields"
    /\ Len(arg.rows) = 3
    /\ \A i \in 1..3 : arg.rows[i].cell["BeneficiaryId"] = Num(1)
    /\ arg.rows[1].cell["Capture Date"] = Mar10
    /\ arg.rows[2].cell["Capture Date"] = Jan10
    /\ arg.rows[3].cell["Capture Date"] = Mar10
    /\ Labels(ret.df.rows) = <<1, 0, 2>>
    /\ ret.df.rows[1].cell["is_latest_measurement"] = Num(0)
    /\ ret.df.rows[2].cell["is_latest_measurement"] = Num(1)
    /\ ret.df.rows[3].cell["is_latest_measurement"] = Num(1)

\* C12: the Deriver's output holds the input's rows ordered by child id
\* and then capture date; a row that is not the first of its child has as
\* days_since_previous_measurement its date minus the date of the row of
\* the same child just before it, in whole days and never negative; the
\* first row of each child has null there.
C12_SortedPreviousDiff ==
    fn \in {"create_derived_fields", "validate_derived_fields"} =>
        LET out == ret.df.rows
        IN  /\ Len(out) = Len(arg.rows)
            /\ {out[i].idx : i \in 1..Len(out)} = {arg.rows[i].idx : i \in 1..Len(arg.rows)}
            /\ \A i \in 1..Len(out) : \A c \in arg.cols : out[i].cell[c] = Origin(out[i]).cell[c]
            /\ \A i, j \in 1..Len(out) :
                   i < j =>
                       \/ out[i].cell["BeneficiaryId"].n < out[j].cell["BeneficiaryId"].n
                       \/ /\ out[i].cell["BeneficiaryId"] = out[j].cell["BeneficiaryId"]
                          /\ ts_le(out[i].cell["Capture Date"], out[j].cell["Capture Date"])
            /\ \A i \in 1..Len(out) :
                   LET id == out[i].cell["BeneficiaryId"]
                       dsp == out[i].cell["days_since_previous_measurement"]
                   IN  IF \A j \in 1..(i - 1) : out[j].cell["BeneficiaryId"] # id
                       THEN dsp = Null
                       ELSE LET p == CHOOSE j \in 1..(i - 1) :
                                         /\ out[j].cell["BeneficiaryId"] = id
                                         /\ \A k \in (j + 1)..(i - 1) :
                                                out[k].cell["BeneficiaryId"] # id
                                prev == out[p].cell["Capture Date"]
                                date == out[i].cell["Capture Date"]
                            IN  /\ dsp = Num((date.d - prev.d)
                                             - (IF date.ns < prev.ns THEN 1 ELSE 0))
                                /\ dsp.n >= 0

\* C12 witness: the records of two children interleaved and out of date
\* order; the output groups them by child in date order, with null for
\* each child's first row, 31 from January to February and 28 from
\* February to March.
C12_Witness ==
    /\ fn = "create_derived_fields"
    /\ Len(arg.rows) = 4
    /\ arg.rows[1].cell["BeneficiaryId"] = Num(2)
    /\ arg.rows[2].cell["BeneficiaryId"] = Num(1)
    /\ arg.rows[2].cell["Capture Date"] = Mar10
    /\ arg.rows[3].cell["BeneficiaryId"] = Num(1)
    /\ arg.rows[3].cell["Capture Date"] = Jan10
    /\ arg.rows[4].cell["BeneficiaryId"] = Num(1)
    /\ arg.rows[4].cell["Capture Date"] = Feb10
    /\ Labels(ret.df.rows) = <<2, 3, 1, 0>>
    /\ ret.df.rows[1].cell["days_since_previous_measurement"] = Null
    /\ ret.df.rows[2].cell["days_since_previous_measurement"] = Num(31)
    /\ ret.df.rows[3].cell["days_since_previous_measurement"] = Num(28)
    /\ ret.df.rows[4].cell["days_since_previous_measurement"] = Null

RaisedStage ==
    IF Len(calls) >= 1 /\ ~remove_duplicates(df_raw).ok THEN "remove_duplicates"
    ELSE IF Len(calls) >= 2 /\ ~remove_extreme_values(df_step1).ok
         THEN "remove_extreme_values"
    ELSE IF Len(calls) >= 3 /\ ~fix_data_types(df_step2).ok THEN "fix_data_types"
    ELSE IF Len(calls) >= 4 /\ ~remove_missing_critical_data(df_step3).ok
         THEN "remove_missing_critical_data"
    ELSE "none"

\* C14: once a stage has raised, the run is over with status 1: the
\* raising stage is the last one called, nothing is written and no upload
\* is attempted.
C14_AbortOnRaise ==
    RaisedStage # "none" =>
        /\ pc = "done"
        /\ exit_code = [code |-> 1]
        /\ calls[Len(calls)] = RaisedStage
        /\ \A i \in 1..(Len(calls) - 1) : calls[i] # RaisedStage
        /\ output_file = Unset
        /\ uploads = 0

\* C14 witness: the Duplicate Resolver raised on a one-row table without
\* its Site column in a run that was to upload, and the run ended there.
C14_Witness ==
    /\ RaisedStage = "remove_duplicates"
    /\ ~no_upload
    /\ Len(df_raw.rows) = 1
    /\ "Site" \notin df_raw.cols
    /\ calls = <<"remove_duplicates">>
    /\ pc = "done"
    /\ exit_code = [code |-> 1]
    /\ output_file = Unset
    /\ uploads = 0

\* The columns a filter requires of its argument.
RequiredColumns(f) ==
    CASE f = "remove_duplicates" -> DedupColumns
      [] f = "remove_extreme_values" -> RangeColumns
      [] f = "remove_missing_critical_data" -> CriticalColumns

\* C15: the Duplicate Resolver, the Range Validator and the Completeness
\* Filter, called on a table that lacks some of their required columns,
\* raise an error that names every missing column and return no table,
\* whatever the number of rows of the table.
C15_MissingColumnsRaise ==
    (/\ fn \in {"remove_duplicates", "remove_extreme_values",
                "remove_missing_critical_data"}
     /\ MissingColumns(RequiredColumns(fn), arg.cols) # <<>>) =>
        /\ ~ret.ok
        /\ ret.exc = "ValueError"
        /\ ret.missing = MissingColumns(RequiredColumns(fn), arg.cols)

\* The columns the pipeline needs the Type Normalizer to find.
TypeRequired == <<"BeneficiaryId", "Answer", "Capture Date">>

\* C16: the Type Normalizer fails, with an error listing the missing
\* columns, exactly when a required column is absent from its argument.
C16_RaisesIffColumnAbsent ==
    fn = "fix_data_types" =>
        /\ ~ret.ok <=> MissingColumns(TypeRequired, arg.cols) # <<>>
        /\ ~ret.ok => ret.missing = MissingColumns(TypeRequired, arg.cols)

\* C17: when the conversion of a whole column raises inside the Type
\* Normalizer, the call fails; no table comes back with that column left
\* as it was.
C17_ColumnErrorPropagates ==
    (fn = "fix_data_types" /\ conversion_errors(arg) > 0) => ~ret.ok

\* The raw cell of row i fails the coercion of its column: a text that is
\* no date in a date column read as dates, a serial beyond the Timedelta
\* range in a date column read as serials, a text that is no number in a
\* numeric or binary column.
CellFails(rows, col, i) ==
    LET c == rows[i].cell[col]
    IN  /\ ~isnull(c)
        /\ IF col = "Capture Date"
           THEN IF LooksSerial(rows, col) THEN TimedeltaOverflows(c)
                ELSE isnull(to_datetime(c))
           ELSE isnull(to_numeric(c))

\* The type a converted cell of the column has.
ConvertedType(col) == IF col = "Capture Date" THEN "date" ELSE "num"

C19_SerialEpoch1899 ==
    (/\ fn = "fix_data_types"
     /\ "Capture Date" \in arg.cols
     /\ Len(arg.rows) > 0
     /\ LooksSerial(arg.rows, "Capture Date")
     /\ ~DateConversionRaises(arg.rows, "Capture Date")) =>
        \A i \in 1..Len(arg.rows) :
            LET raw == arg.rows[i].cell["Capture Date"]
            IN  (~isnull(raw) /\ raw.n > 59) =>
                    /\ ret.df.rows[i].cell["Capture Date"]
                           = Timestamp(DaysFromCivil(1899, 12, 30) + raw.n, 0)
                    /\ raw = SerialCell
                           => ret.df.rows[i].cell["Capture Date"] = Date(2023, 1, 1)

\* C20: after the Type Normalizer every cell of a declared binary column
\* holds 0 or 1, whatever the raw cell was.
C20_BinaryZeroOne ==
    (fn = "fix_data_types" /\ "Flagged" \in arg.cols) =>
        \A i \in 1..Len(ret.df.rows) :
            ret.df.rows[i].cell["Flagged"] \in {Num(0), Num(1)}

\* C21: the Range Validator removes no row whose value is missing or is
\* no number, whatever its kind: every such row of the input is in the
\* output, and every removed row has a present numeric value.
C21_MissingValueKept ==
    fn = "remove_extreme_values" =>
        /\ ret.ok
        /\ \A i \in 1..Len(arg.rows) :
              LET kept == \E j \in 1..Len(ret.df.rows) : ret.df.rows[j].idx = arg.rows[i].idx
                  value == to_numeric(arg.rows[i].cell["Answer"])
              IN  /\ isnull(value) => kept
                  /\ ~kept => value.t = "num"

\* C21 witness: of two "Measure: Height" rows the height of 201 was
\* removed and the row whose value is the text abc was kept, its value
\* now null.
C21_Witness ==
    /\ fn = "remove_extreme_values"
    /\ Len(arg.rows) = 2
    /\ arg.rows[1].cell["DatapointName"] = Str(S_MeasureHeight)
    /\ arg.rows[1].cell["Answer"] = Num(201)
    /\ arg.rows[2].cell["DatapointName"] = Str(S_MeasureHeight)
    /\ arg.rows[2].cell["Answer"] = Str(S_abc)
    /\ Labels(ret.df.rows) = <<1>>
    /\ ret.df.rows[1].cell["Answer"] = Null

\* The result of a stage function on a table.
StageResult(f, df) ==
    CASE f = "remove_duplicates" -> remove_duplicates(df)
      [] f = "remove_extreme_values" -> remove_extreme_values(df)
      [] f = "fix_data_types" -> fix_data_types(df)
      [] f = "remove_missing_critical_data" -> remove_missing_critical_data(df)
      [] f = "create_derived_fields" -> Return(create_derived_fields(df))

\* C22: after a call of a stage function, whether it returned or raised,
\* the caller's table has the rows, row order, columns and cells it had
\* before the call; what the call gives back is the stage's result.
C22_InputUnchanged ==
    fn \in Stages =>
        /\ ret2.after = arg
        /\ ret = StageResult(fn, arg)

\* C22 witness: the Duplicate Resolver returned a table that differs from
\* its two-row argument, whose text cells it coerced in its working copy,
\* and the argument is as it was.
C22_Witness ==
    /\ fn = "remove_duplicates"
    /\ Len(arg.rows) = 2
    /\ arg.rows[2].cell["BeneficiaryId"] = Str(S_42)
    /\ ret.ok
    /\ Len(ret.df.rows) = 2
    /\ ret.df.rows[2].cell["BeneficiaryId"] = Num(42)
    /\ ret2.after = arg
    /\ ~ret2.same_object

\* C23: when the stages and the write have succeeded and the upload then
\* fails, the run returns 1 and the output file is the table that was
\* written, the result of the last stage; the stages had all returned
\* before the upload was tried.
C23_UploadFailureKeepsOutput ==
    (upload_result # Unset /\ upload_result # [success |-> TRUE]) =>
        /\ pc = "done"
        /\ exit_code = [code |-> 1]
        /\ output_file # Unset
        /\ output_file = df_cleaned
        /\ remove_missing_critical_data(df_step3) = Return(output_file)
        /\ calls = MainOrder

\* C23 witness: upload_data returned False after a two-row table had been
\* written; the run ended with 1 and the file holds the two rows.
C23_Witness ==
    /\ upload_result = [success |-> FALSE]
    /\ pc = "done"
    /\ exit_code = [code |-> 1]
    /\ uploads = 1
    /\ output_file # Unset
    /\ Len(output_file.rows) = 2
    /\ output_file = df_cleaned

\* The positions in the log of the write_pandas calls for chunk k.
AttemptsOf(k) == {j \in 1..Len(ret.log) : ret.log[j].chunk = k}

\* A write_pandas call after which upload_data returns False.
Fatal(a) == a.outcome = "failure" \/ (a.try = 2 /\ a.outcome = "raise")

NumChunks == (arg.rows + arg.chunk_size - 1) \div arg.chunk_size

\* Every chunk of the prepared table has a write that reported success.
AllChunksSucceeded ==
    \A k \in 1..NumChunks : \E j \in AttemptsOf(k) : ret.log[j].outcome = "success"

\* The write_pandas calls are for consecutive chunks of at most chunk_size
\* rows in row order, at most two calls per chunk, the second only after
\* the first raised.
ChunksInOrder ==
    \A j \in 1..Len(ret.log) :
        LET a == ret.log[j]
        IN  /\ a.chunk \in 1..NumChunks
            /\ a.first = (a.chunk - 1) * arg.chunk_size
            /\ a.last = (IF a.chunk * arg.chunk_size < arg.rows
                         THEN a.chunk * arg.chunk_size ELSE arg.rows) - 1
            /\ a.last - a.first + 1 \in 1..arg.chunk_size
            /\ Cardinality(AttemptsOf(a.chunk)) <= 2
            /\ j = 1 => (a.chunk = 1 /\ a.try = 1)
            /\ j > 1 =>
                  IF ret.log[j - 1].outcome = "raise"
                  THEN a.chunk = ret.log[j - 1].chunk /\ a.try = 2
                                                     /\ ret.log[j - 1].try = 1
                  ELSE a.chunk = ret.log[j - 1].chunk + 1 /\ a.try = 1
                                                         /\ ret.log[j - 1].outcome = "success"

\* The remote table holds the rows of the chunks written with success, in
\* row order.
WrittenChunksKept ==
    LET done == {k \in 1..NumChunks : \E j \in AttemptsOf(k) : ret.log[j].outcome = "success"}
        rows == IF Cardinality(done) * arg.chunk_size < arg.rows
                THEN Cardinality(done) * arg.chunk_size ELSE arg.rows
    IN  /\ \A k \in done : \A m \in 1..k : m \in done
        /\ ret.table = [p \in 1..rows |-> p - 1]

\* C27 as stated: upload_data writes the chunks in row order with at most
\* two calls per chunk, returns True exactly when every chunk's write
\* reported success, returns False at the first chunk that fails with the
\* earlier chunks left written, and returns True with no write for a
\* table without rows.
C27_TrueIffEveryChunkWritten ==
    fn = "upload_data" =>
        /\ ChunksInOrder
        /\ WrittenChunksKept
        /\ ret2 # Unset =>
              /\ ret2.result <=> AllChunksSucceeded
              /\ arg.rows = 0 => (ret2.result /\ ret.log = <<>>)

\* C27 amended: the same, except that upload_data also returns False,
\* with no write at all, when preparing the table or opening the
\* connection fails; so it returns True exactly when both succeeded and
\* every chunk's write reported success, and a table without rows gives
\* True only then.
C27_TrueIffConnectedAndWritten ==
    fn = "upload_data" =>
        /\ ChunksInOrder
        /\ WrittenChunksKept
        /\ ret.at \in {"prepare", "connect"} => (ret.log = <<>> /\ ret.table = <<>>)
        /\ ret2 # Unset =>
              /\ ret2.result <=> (ret.at = "chunk" /\ AllChunksSucceeded)
              /\ ~ret2.result =>
                    \/ ret.at \in {"prepare", "connect"}
                    \/ /\ Len(ret.log) > 0
                       /\ Fatal(ret.log[Len(ret.log)])
                       /\ \A j \in 1..(Len(ret.log) - 1) : ~Fatal(ret.log[j])
              /\ arg.rows = 0 => (ret.log = <<>> /\ (ret2.result <=> ret.at = "chunk"))

\* C27 witness: of four rows in chunks of two, the first chunk was
\* written, the second raised and then reported failure on the retry:
\* False, with rows 0 and 1 left in the remote table.
C27_Witness ==
    /\ fn = "upload_data"
    /\ arg = [rows |-> 4, chunk_size |-> 2]
    /\ ret2 = [result |-> FALSE]
    /\ Len(ret.log) = 3
    /\ ret.log[1] = [chunk |-> 1, first |-> 0, last |-> 1, try |-> 1, outcome |-> "success"]
    /\ ret.log[2] = [chunk |-> 2, first |-> 2, last |-> 3, try |-> 1, outcome |-> "raise"]
    /\ ret.log[3] = [chunk |-> 2, first |-> 2, last |-> 3, try |-> 2, outcome |-> "failure"]
    /\ ret.table = <<0, 1>>

\* Loading, every stage, the write and (unless skipped) the upload have
\* all succeeded.
AllStepsSucceeded ==
    /\ file_exists
    /\ df_raw # Unset
    /\ calls = <<"remove_duplicates", "remove_extreme_values", "fix_data_types",
                 "remove_missing_critical_data">>
    /\ df_cleaned # Unset
    /\ output_file # Unset
    /\ no_upload \/ upload_result = [success |-> TRUE]

\* C25: main returns 0 exactly when loading, every stage, the write and
\* (unless skipped) the upload all succeeded, and 1 when the input file is
\* missing or one of those steps failed; with --no-upload upload_data is
\* never called in the run.
C25_ExitStatus ==
    /\ pc # "done" => exit_code = Unset
    /\ pc = "done" =>
          /\ exit_code \in {[code |-> 0], [code |-> 1]}
          /\ exit_code = [code |-> 0] <=> AllStepsSucceeded
          /\ ~file_exists => (exit_code = [code |-> 1] /\ df_raw = Unset /\ calls = <<>>)
    /\ argv_no_upload =>
          /\ no_upload
          /\ uploads = 0
          /\ fn # "upload_data"
          /\ upload_result = Unset
          /\ pc # "uploading"

\* C25 witness: a run with the upload requested in which every step
\* succeeded has returned 0 after upload_data returned True.
C25_Witness ==
    /\ pc = "done"
    /\ ~argv_no_upload
    /\ uploads = 1
    /\ upload_result = [success |-> TRUE]
    /\ exit_code = [code |-> 0]
    /\ output_file # Unset
    /\ Len(output_file.rows) = 1

\* The positions of the execute_query calls in the trace.
QueryCalls == {j \in 1..Len(ret.trace) : ret.trace[j].ev = "execute_query"}

\* C26: for max_retries >= 1, execute_query_with_retry calls execute_query
\* at most max_retries times, returns the result of the first successful
\* call without a further call, waits 2^k seconds after the k-th failed
\* call (k from 0) when attempts remain, and re-raises the error of the
\* max_retries-th consecutive failure without waiting.
C26_RetryBackoff ==
    (fn = "execute_query_with_retry" /\ arg.max_retries >= 1) =>
        LET t == ret.trace
            n == Len(ret.trace)
        IN  /\ Cardinality(QueryCalls) <= arg.max_retries
            /\ \A j \in 1..n :
                  /\ j = 1 => (t[j].ev = "execute_query" /\ t[j].attempt = 0)
                  /\ t[j].ev = "execute_query" =>
                        /\ t[j].query = arg.query
                        /\ t[j].attempt = Cardinality({i \in QueryCalls : i < j})
                        /\ t[j].ok => (j = n /\ ret2 = [returned |-> t[j].val])
                        /\ ~t[j].ok /\ t[j].attempt < arg.max_retries - 1 /\ j < n =>
                              t[j + 1] = Sleep(t[j].attempt, 2 ^ t[j].attempt)
                        /\ ~t[j].ok /\ t[j].attempt = arg.max_retries - 1 =>
                              (j = n /\ ret2 \in {Unset, [raised |-> t[j].val]})
                  /\ t[j].ev = "sleep" =>
                        /\ j > 1
                        /\ t[j - 1].ev = "execute_query" /\ ~t[j - 1].ok
                        /\ t[j - 1].attempt = t[j].attempt
                        /\ t[j].secs = 2 ^ t[j].attempt
                        /\ ret2 = Unset \/ j < n
                        /\ j < n => (t[j + 1].ev = "execute_query"
                                     /\ t[j + 1].attempt = t[j].attempt + 1)
            /\ ret2 # Unset =>
                  /\ n > 0
                  /\ t[n].ev = "execute_query"
                  /\ IF t[n].ok THEN ret2 = [returned |-> t[n].val]
                     ELSE /\ ret2 = [raised |-> t[n].val]
                          /\ Cardinality(QueryCalls) = arg.max_retries
                          /\ \A j \in QueryCalls : ~t[j].ok

\* C26 witness: with max_retries = 3 the three calls failed, with waits
\* of 1 and 2 seconds between them, and the third error was re-raised.
C26_Witness ==
    /\ fn = "execute_query_with_retry"
    /\ arg.max_retries = 3
    /\ ret2 = [raised |-> "ProgrammingError"]
    /\ Len(ret.trace) = 5
    /\ ret.trace[1].ev = "execute_query" /\ ret.trace[1].val = "OperationalError"
    /\ ret.trace[2] = Sleep(0, 1)
    /\ ret.trace[3].ev = "execute_query" /\ ret.trace[3].val = "OperationalError"
    /\ ret.trace[4] = Sleep(1, 2)
    /\ ret.trace[5] = QueryCall(2, [ok |-> FALSE, val |-> "ProgrammingError"])

\* The number of the three label classes of remove_extreme_values that a
\* row of the coerced table p belongs to.
LabelClasses(p, row) ==
    Cardinality({c \in {"height", "bmi", "other"} :
        CASE c = "height" -> row.cell["DatapointName"] = Str(S_MeasureHeight)
          [] c = "bmi" -> row.cell["DatapointName"] = Str(S_MeasureBMI)
          [] c = "other" -> row.cell["DatapointName"] \in OtherLabels(p)})

\* C28: the Range Validator tests a row against [40, 200] only under the
\* exact label "Measure: Height", against [5, 50] only under the exact
\* label "Measure BMI", and against [0, 1000] under any other label,
\* "Height", "BMI" and a missing kind rendered as text included; the three
\* label classes partition the rows, and a row is removed exactly when its
\* value is outside the one interval of its class.
C28_ExactLabelPartition ==
    fn = "remove_extreme_values" =>
        /\ ret.ok
        /\ \A i \in 1..Len(arg.rows) :
              LET kind == arg.rows[i].cell["DatapointName"]
                  value == to_numeric(arg.rows[i].cell["Answer"])
                  kept == \E j \in 1..Len(ret.df.rows) : ret.df.rows[j].idx = arg.rows[i].idx
                  lo == IF kind = Str(S_MeasureHeight) THEN 40
                        ELSE IF kind = Str(S_MeasureBMI) THEN 5 ELSE 0
                  hi == IF kind = Str(S_MeasureHeight) THEN 200
                        ELSE IF kind = Str(S_MeasureBMI) THEN 50 ELSE 1000
              IN  /\ LabelClasses(RangeCoerce(arg.rows), RangeCoerce(arg.rows)[i]) = 1
                  /\ kept <=> (value.t = "num" => InRange(value, lo, hi))

\* C28 witness: a row without a kind and the value 1001 was removed, held
\* to [0, 1000] under the text its missing kind became, and a row of kind
\* "BMI" with the value 51 was kept, "BMI" not being the label of [5, 50].
C28_Witness ==
    /\ fn = "remove_extreme_values"
    /\ Len(arg.rows) = 2
    /\ arg.rows[1].cell["DatapointName"] = Null
    /\ arg.rows[1].cell["Answer"] = Num(1001)
    /\ arg.rows[2].cell["DatapointName"] = Str(S_BMI)
    /\ arg.rows[2].cell["Answer"] = Num(51)
    /\ Labels(ret.df.rows) = <<1>>

\* The test of fix_data_types that sends a date column to the serial
\* conversion: a sample that is not empty, numeric and above the
\* threshold.
SerialDetected(df, col) ==
    /\ ~empty(df)
    /\ col \in df.cols
    /\ Len(DropnaHead(df.rows, col, SampleSize)) > 0
    /\ LooksSerial(df.rows, col)

\* The raw row that a row of a pipeline table comes from.
RawOrigin(row) == df_raw.rows[PosOf(df_raw.rows, row.idx)]

\* C29: in the pipeline remove_duplicates runs before fix_data_types and
\* hands on the capture date coerced to a date type, so fix_data_types
\* never detects serial numbers in the capture-date column and never
\* applies the serial conversion to it: each capture date it returns is
\* the to_datetime of the raw cell.
C29_NoSerialConversionInPipeline ==
    /\ \A k \in 1..Len(calls) :
          calls[k] = "fix_data_types" => \E j \in 1..(k - 1) : calls[j] = "remove_duplicates"
    /\ (df_step1 # Unset /\ ~empty(df_step1)) =>
          \A i \in 1..Len(df_step1.rows) :
              df_step1.rows[i].cell["Capture Date"].t \in {"date", "null"}
    /\ df_step2 # Unset => ~SerialDetected(df_step2, "Capture Date")
    /\ (df_step3 # Unset /\ ~empty(df_step3)) =>
          \A i \in 1..Len(df_step3.rows) :
              df_step3.rows[i].cell["Capture Date"]
                  = to_datetime(RawOrigin(df_step3.rows[i]).cell["Capture Date"])

\* C29 witness: a raw capture date given as the serial number 44927 has
\* passed fix_data_types as the timestamp 44927 nanoseconds after
\* 1970-01-01, the date type remove_duplicates made of it.
C29_Witness ==
    /\ df_step3 # Unset
    /\ Len(df_raw.rows) = 1
    /\ df_raw.rows[1].cell["Capture Date"] = Num(44927)
    /\ Len(df_step3.rows) = 1
    /\ df_step3.rows[1].cell["Capture Date"] = Timestamp(0, 44927)

\* The import of the upload collaborator was tried and failed: the upload
\* was requested on the command line and the local is still None.
ImportFailed == ~argv_no_upload /\ SnowflakeIntegration = None

\* C30: when the upload is requested and the upload collaborator cannot
\* be imported, the run goes on as with --no-upload: the stages run, the
\* output is written, upload_data is never called, and a run whose load,
\* stages and write succeed returns 0.
C30_ImportFailureSkipsUpload ==
    ImportFailed =>
        /\ pc \notin {"start", "import", "uploading"}
        /\ no_upload
        /\ uploads = 0
        /\ fn # "upload_data"
        /\ upload_result = Unset
        /\ pc = "upload" => (output_file # Unset /\ output_file = df_cleaned /\ Len(calls) = 4)
        /\ pc = "done" =>
              IF output_file # Unset
              THEN exit_code = [code |-> 0] /\ output_file = df_cleaned /\ Len(calls) = 4
              ELSE exit_code = [code |-> 1]

\* C30 witness: a run with the upload requested and the import failed
\* has written a row and returned 0 without an upload.
C30_Witness ==
    /\ pc = "done"
    /\ ImportFailed
    /\ uploads = 0
    /\ exit_code = [code |-> 0]
    /\ output_file # Unset
    /\ Len(output_file.rows) = 1
    /\ Len(calls) = 4

====
